---- MODULE Spec2Model ----
(***************************************************************************)
(* Document ingestion and vector retrieval of the RAG chatbot:             *)
(*   - SupabaseVectorStore (src/src/lib/supabase-vector-store.ts)          *)
(*   - the PDF extraction fallback chain and the chunker                   *)
(*     (src/src/lib/document-processor.ts)                                 *)
(*   - the chat, upload and documents route handlers (src/src/app/api)     *)
(*                                                                         *)
(* Specifications:                                                         *)
(*   SpecStore  calls of the vector store API on the shared table          *)
(*   SpecPDF    one run of processPDF                                      *)
(*   SpecChunk  one run of splitTextIntoChunks, one loop iteration a step  *)
(*   SpecChunkRun  the same with fairness, on shorter texts                *)
(*   SpecChunkStep  the same as SpecChunk with larger chunk sizes, on      *)
(*              texts without blanks                                       *)
(*   SpecScenario  splitTextIntoChunks on three sentences of equal length  *)
(*   SpecEmbed  one run of generateEmbeddings (src/src/lib/embeddings.ts)  *)
(*   SpecDoc    one run of processDocument                                 *)
(*   SpecBackends  the same calls on SupabaseVectorStore and on the        *)
(*              in-memory VectorStore (src/unnamed/part_001)               *)
(*   SpecCosine  calls of cosineSimilarity on integer vectors              *)
(*   SpecUpload  one upload request with processDocument inside it         *)
(*   Spec       concurrent requests to the route handlers                  *)
(***************************************************************************)
EXTENDS Integers, Sequences, FiniteSets, TLC

VARIABLES
    rows,       \* table document_chunks, in insertion order
    nextId,     \* number of uuids drawn so far (uuidv4 is modelled as fresh)
    op,         \* the last store call and what it returned
    pdf,        \* one run of processPDF: position, strategy outcomes, result
    ck,         \* one run of splitTextIntoChunks: inputs, cursor, chunks
    reqs,       \* the requests in flight at the route handlers
    eb,         \* one run of generateEmbeddings: texts, calls, result
    dp,         \* one run of processDocument: file name, calls, result
    memory      \* documents of the in-memory VectorStore, in insertion order

storeVars == <<rows, nextId, op>>

vars == <<rows, nextId, op, pdf, ck, reqs, eb, dp, memory>>

-----------------------------------------------------------------------------
(* Bounds *)

MaxRows == 3        \* rows in the table
MaxIds == 3         \* uuids drawn in one behaviour
MaxChunks == 2      \* chunks of one addDocuments call
MaxTopK == 2        \* largest topK passed to search
MaxTextLen == 5     \* length of the text given to splitTextIntoChunks
MaxShortLen == 4    \* the same, in the specification with fairness
MaxChunkSize == 4    \* largest chunkSize given to splitTextIntoChunks
MaxScale == 8       \* largest reduced overlap of the three-sentence scenario
MaxTexts == 3       \* texts given to generateEmbeddings
MaxStored == 2      \* inserts attempted by the upload requests of a behaviour
MaxPaired == 2      \* rows held by the Supabase store when both stores run
MaxStepLen == 6     \* length of the text in the specification of the step rule
MaxStepSize == 5    \* largest chunkSize in the specification of the step rule

\* .limit(500) of the fallback query, scaled to the table size of the model
QueryLimit == 2

Owners == {"u1", "u2"}
FileNames == {"a.txt"}

\* Embedding vectors.  Against the query <<1,1,0>> the stored vectors have
\* cosine similarity 1, 0.707.. and exactly 0.5; against <<1,0,0>> they have
\* 0.707.., 1 and 0.
Embeddings == {<<1, 1, 0>>, <<1, 0, 0>>, <<0, 1, 1>>}
Queries == {<<1, 1, 0>>, <<1, 0, 0>>}

-----------------------------------------------------------------------------
(* Helpers *)

Min(a, b) == IF a < b THEN a ELSE b

Range(s) == {s[i] : i \in 1..Len(s)}

\* All orderings of a finite set, as sequences.
Perms(S) ==
    {f \in [1..Cardinality(S) -> S] : \A i, j \in DOMAIN f : i # j => f[i] # f[j]}

RECURSIVE SumTo(_, _)
SumTo(f, n) == IF n = 0 THEN 0 ELSE f[n] + SumTo(f, n - 1)

Dot(a, b) == SumTo([i \in 1..Len(a) |-> a[i] * b[i]], Len(a))

-----------------------------------------------------------------------------
(* Cosine similarity.  The code computes the float                         *)
(* dot / (sqrt(normA) * sqrt(normB)).  The model keeps the exact value as  *)
(* the signed square  n/d = sgn(dot) * dot^2 / (normA * normB), which      *)
(* orders and compares against 0.5 exactly as the quotient does;           *)
(* d = 0 is 0/0 = NaN.                                                     *)

cosineSimilarity(a, b) ==
    IF Len(a) # Len(b) THEN [n |-> 0, d |-> 1]
    ELSE LET dotProduct == Dot(a, b)
             normA == Dot(a, a)
             normB == Dot(b, b)
         IN [n |-> IF dotProduct < 0 THEN -(dotProduct * dotProduct)
                   ELSE dotProduct * dotProduct,
             d |-> normA * normB]

IsNaN(s) == s.d = 0

\* s > t on numbers; every comparison with NaN is false.
SimGT(s, t) == ~IsNaN(s) /\ ~IsNaN(t) /\ s.n * t.d > t.n * s.d

\* similarity > 0.5, i.e. cos > 0 and cos^2 > 1/4
AboveThreshold(s) == ~IsNaN(s) /\ s.n > 0 /\ 4 * s.n > s.d

\* Results of sorting the elements of S with the comparator
\* (a, b) => b.similarity - a.similarity.  Rows of equal similarity keep the
\* order in which the database returned them, which the query does not fix;
\* with a NaN similarity the comparator is inconsistent and the order is
\* implementation-defined.
SortedBySimilarity(S, q) ==
    IF \E r \in S : IsNaN(cosineSimilarity(q, r.embedding))
    THEN Perms(S)
    ELSE {f \in Perms(S) : \A i, j \in DOMAIN f :
            i < j => ~SimGT(cosineSimilarity(q, f[j].embedding),
                            cosineSimilarity(q, f[i].embedding))}

-----------------------------------------------------------------------------
(* Text.  A string is a sequence of one-character strings. *)

WhiteSpace == {" ", "\n"}

\* the positions of t that hold no white space
Inked(t) == {i \in 1..Len(t) : t[i] \notin WhiteSpace}

\* String.prototype.trimStart
TrimStart(t) ==
    IF Inked(t) = {} THEN <<>>
    ELSE SubSeq(t, CHOOSE i \in Inked(t) : \A j \in Inked(t) : i <= j, Len(t))

\* String.prototype.trimEnd
TrimEnd(t) ==
    IF Inked(t) = {} THEN <<>>
    ELSE SubSeq(t, 1, CHOOSE i \in Inked(t) : \A j \in Inked(t) : j <= i)

\* String.prototype.trim
Trim(t) == TrimEnd(TrimStart(t))

\* values of the idle runs in the specifications that do not use them
PdfIdle == [pc |-> "idle"]
CkIdle == [pc |-> "idle"]
EbIdle == [pc |-> "idle"]
DpIdle == [pc |-> "idle"]

-----------------------------------------------------------------------------
(* SupabaseVectorStore *)

Owned(table, userId) == {r \in Range(table) : r.user_id = userId}

\* row -> DocumentChunk (the user_id column is dropped)
ToChunk(row) ==
    [id |-> row.id, embedding |-> row.embedding,
     metadata |-> [fileName |-> row.file_name, chunkIndex |-> row.chunk_index,
                   timestamp |-> row.created_at]]

MapChunks(s) == [i \in 1..Len(s) |-> ToChunk(s[i])]

\* .insert({...}) of one chunk
InsertRow(table, chunk, id, userId) ==
    Append(table, [id |-> id, embedding |-> chunk.embedding,
                   file_name |-> chunk.metadata.fileName,
                   chunk_index |-> chunk.metadata.chunkIndex,
                   created_at |-> chunk.metadata.timestamp,
                   user_id |-> userId])

\* addDocuments: the loop over the chunks, each drawing a uuid and inserting
\* one row.  failAt = 0 when no insert fails; otherwise the insert of chunk
\* failAt returns an error and the call throws at once.
RECURSIVE addDocumentsLoop(_, _, _, _, _, _)
addDocumentsLoop(table, chunks, k, ids, userId, failAt) ==
    IF k > Len(chunks) THEN [table |-> table, threw |-> FALSE, ids |-> ids]
    ELSE LET id == IF ids = <<>> THEN nextId + 1 ELSE ids[Len(ids)] + 1
         IN IF k = failAt
            THEN [table |-> table, threw |-> TRUE, ids |-> Append(ids, id)]
            ELSE addDocumentsLoop(InsertRow(table, chunks[k], id, userId),
                                  chunks, k + 1, Append(ids, id), userId, failAt)

\* addDocuments undoing its inserts when one of them fails
addDocumentsRollback(table, chunks, userId, failAt) ==
    LET r == addDocumentsLoop(table, chunks, 1, <<>>, userId, failAt)
    IN IF r.threw THEN [r EXCEPT !.table = table] ELSE r

addDocuments(table, chunks, userId, failAt) ==
    addDocumentsLoop(table, chunks, 1, <<>>, userId, failAt)

\* The server-side function match_documents(query_embedding,
\* match_threshold, match_count): the rows of the table whose similarity to
\* the query exceeds the threshold, ranked by descending similarity, at most
\* match_count of them.  It takes no owner.
match_documents(table, query_embedding, match_count) ==
    LET hits == {r \in Range(table) :
                    AboveThreshold(cosineSimilarity(query_embedding, r.embedding))}
    IN {SubSeq(f, 1, Min(match_count, Len(f))) :
            f \in SortedBySimilarity(hits, query_embedding)}

\* FilterByUser without the owner test
FilterByUserNone(data, userId) == data

\* .filter(row => row.user_id === userId) on the rpc result
FilterByUser(data, userId) == SelectSeq(data, LAMBDA row : row.user_id = userId)

\* Rows the fallback query can load: .eq('user_id', userId).limit(QueryLimit)
\* has no ORDER BY, so any QueryLimit of the owner's rows may come back.
Candidates(table, userId) ==
    LET owned == Owned(table, userId)
    IN {c \in SUBSET owned : Cardinality(c) = Min(QueryLimit, Cardinality(owned))}

\* SliceAndFilter without the threshold filter
SliceOnly(sorted, q, topK) == SubSeq(sorted, 1, Min(topK, Len(sorted)))

\* .slice(0, topK).filter(item => item.similarity > 0.5)
SliceAndFilter(sorted, q, topK) ==
    SelectSeq(SubSeq(sorted, 1, Min(topK, Len(sorted))),
              LAMBDA row : AboveThreshold(cosineSimilarity(q, row.embedding)))

\* searchWithDirectQuery without the sort
searchWithDirectQueryUnsorted(table, queryEmbedding, topK, userId, readError) ==
    IF readError THEN {<<>>}
    ELSE UNION {{MapChunks(SliceAndFilter(sorted, queryEmbedding, topK)) :
                    sorted \in Perms(allData)} :
                allData \in Candidates(table, userId)}

\* searchWithDirectQuery: the possible results; readError is the outcome of
\* the select.
searchWithDirectQuery(table, queryEmbedding, topK, userId, readError) ==
    IF readError THEN {<<>>}
    ELSE UNION {{MapChunks(SliceAndFilter(sorted, queryEmbedding, topK)) :
                    sorted \in SortedBySimilarity(allData, queryEmbedding)} :
                allData \in Candidates(table, userId)}

\* search: rpc is the outcome of supabase.rpc('match_documents', ...):
\* "ok" (data rows), "null" (no error, no data), "error" ({error}) or
\* "throw"; the last two take the fallback.
search(table, queryEmbedding, topK, userId, rpc, readError) ==
    CASE rpc = "ok" ->
            {MapChunks(FilterByUser(data, userId)) :
                data \in match_documents(table, queryEmbedding, topK)}
      [] rpc = "null" -> {<<>>}
      [] OTHER ->
            searchWithDirectQuery(table, queryEmbedding, topK, userId, readError)

\* getAllDocuments: .order('created_at', {ascending: false}); rows of equal
\* created_at come in any order.
getAllDocuments(table, userId, readError) ==
    IF readError THEN {<<>>}
    ELSE {MapChunks(f) : f \in
            {g \in Perms(Owned(table, userId)) : \A i, j \in DOMAIN g :
                i < j => g[i].created_at >= g[j].created_at}}

\* clear without the .eq('user_id', userId) filter
clearEveryOwner(table, userId, deleteError) ==
    IF deleteError THEN table ELSE <<>>

\* clear: .delete().eq('user_id', userId); a delete error throws and deletes
\* nothing.
clear(table, userId, deleteError) ==
    IF deleteError THEN table
    ELSE SelectSeq(table, LAMBDA row : row.user_id # userId)

\* getCount: count || 0, and 0 on a read error
getCount(table, userId, readError) ==
    IF readError THEN 0 ELSE Cardinality(Owned(table, userId))

-----------------------------------------------------------------------------
(* SpecStore: calls of the store API, one call a step *)

NoOp == [name |-> "none", owner |-> "", q |-> <<>>, topK |-> 0, path |-> "",
         chunks |-> <<>>, count |-> 0, threw |-> FALSE, dbError |-> FALSE,
         input |-> <<>>, mem |-> <<>>, memCount |-> 0, rpc |-> ""]

MakeChunk(embedding, fileName, index, ts) ==
    [embedding |-> embedding,
     metadata |-> [fileName |-> fileName, chunkIndex |-> index, timestamp |-> ts]]

RpcOutcomes == {"ok", "null", "error", "throw"}

InitStore ==
    /\ rows = <<>>
    /\ nextId = 0
    /\ op = NoOp
    /\ pdf = PdfIdle
    /\ ck = CkIdle
    /\ reqs = <<>>
    /\ eb = EbIdle
    /\ dp = DpIdle
    /\ memory = <<>>

AddDocuments(userId) ==
    \E n \in 1..MaxChunks, fileName \in FileNames :
      \E embs \in [1..n -> Embeddings], failAt \in 0..n :
        LET ts == nextId + 1    \* new Date() of the caller: a monotonic clock
            chunks == [i \in 1..n |-> MakeChunk(embs[i], fileName, i - 1, ts)]
            r == addDocuments(rows, chunks, userId, failAt)
        IN /\ Len(rows) + n <= MaxRows
           /\ nextId + n <= MaxIds
           /\ rows' = r.table
           /\ nextId' = nextId + Len(r.ids)
           /\ op' = [NoOp EXCEPT !.name = "addDocuments", !.owner = userId,
                                 !.count = n, !.threw = r.threw, !.input = chunks,
                                 !.dbError = (failAt # 0),
                                 !.chunks = IF r.threw THEN <<>> ELSE r.ids]

Search(userId) ==
    \E q \in Queries, topK \in 1..MaxTopK, rpc \in RpcOutcomes :
      \E readError \in IF rpc \in {"ok", "null"} THEN {FALSE} ELSE BOOLEAN :
      \E res \in search(rows, q, topK, userId, rpc, readError) :
        /\ op' = [NoOp EXCEPT !.name = "search", !.owner = userId, !.q = q,
                              !.topK = topK, !.chunks = res, !.rpc = rpc,
                              !.path = CASE rpc = "ok" -> "rpc"
                                         [] rpc = "null" -> "null"
                                         [] OTHER -> "direct",
                              !.dbError = readError]
        /\ UNCHANGED <<rows, nextId>>

GetAllDocuments(userId) ==
    \E readError \in BOOLEAN :
      \E res \in getAllDocuments(rows, userId, readError) :
        /\ op' = [NoOp EXCEPT !.name = "getAllDocuments", !.owner = userId,
                              !.chunks = res, !.dbError = readError]
        /\ UNCHANGED <<rows, nextId>>

Clear(userId) ==
    \E deleteError \in BOOLEAN :
        /\ rows' = clear(rows, userId, deleteError)
        /\ op' = [NoOp EXCEPT !.name = "clear", !.owner = userId,
                              !.count = Len(rows) - Len(rows'),
                              !.threw = deleteError, !.dbError = deleteError]
        /\ UNCHANGED nextId

GetCount(userId) ==
    \E readError \in BOOLEAN :
        /\ op' = [NoOp EXCEPT !.name = "getCount", !.owner = userId,
                              !.count = getCount(rows, userId, readError),
                              !.dbError = readError]
        /\ UNCHANGED <<rows, nextId>>

NextStore ==
    /\ \E userId \in Owners :
          \/ AddDocuments(userId)
          \/ Search(userId)
          \/ GetAllDocuments(userId)
          \/ Clear(userId)
          \/ GetCount(userId)
    /\ UNCHANGED <<pdf, ck, reqs, eb, dp, memory>>

SpecStore == InitStore /\ [][NextStore]_vars

-----------------------------------------------------------------------------
(* Properties of the store (SpecStore) *)

\* C1: the chunks returned by search (either path) and getAllDocuments for
\* an owner are rows stored under that owner, and getCount counts no row of
\* another owner.
C1_OwnerIsolation ==
    /\ op.name \in {"search", "getAllDocuments"} =>
          \A i \in 1..Len(op.chunks) :
             \E r \in Range(rows) : r.id = op.chunks[i].id /\ r.user_id = op.owner
    /\ op.name = "getCount" => op.count <= Cardinality(Owned(rows, op.owner))

\* a server-side search that returned a chunk while another owner holds a
\* row above the threshold for the same query
C1_Witness ==
    /\ op.name = "search" /\ op.path = "rpc" /\ Len(op.chunks) > 0
    /\ \E r \in Range(rows) :
          /\ r.user_id # op.owner
          /\ AboveThreshold(cosineSimilarity(op.q, r.embedding))

\* The owner's rows above the threshold, ranked, cut to topK.
OwnerRanking(table, q, topK, userId) ==
    LET hits == {r \in Owned(table, userId) :
                    AboveThreshold(cosineSimilarity(q, r.embedding))}
    IN {MapChunks(SubSeq(f, 1, Min(topK, Len(f)))) :
            f \in SortedBySimilarity(hits, q)}

\* C2: on the server-side path search returns exactly the owner's chunks
\* with similarity > 0.5, in descending similarity order, cut to the first
\* topK of them.
C2_ServerPathRanking ==
    (op.name = "search" /\ op.path = "rpc") =>
        op.chunks \in OwnerRanking(rows, op.q, op.topK, op.owner)

\* C3: search returns at most topK chunks, each with similarity to the
\* query strictly above 0.5 (possibly none).
C3_TopKAndThreshold ==
    op.name = "search" =>
        /\ Len(op.chunks) <= op.topK
        /\ \A i \in 1..Len(op.chunks) :
              AboveThreshold(cosineSimilarity(op.q, op.chunks[i].embedding))

\* a fallback search that returned fewer than topK chunks because a loaded
\* row of the owner did not exceed the threshold
C3_Witness ==
    /\ op.name = "search" /\ op.path = "direct" /\ ~op.dbError
    /\ Len(op.chunks) < op.topK
    /\ Cardinality(Owned(rows, op.owner)) = op.topK
    /\ \E r \in Owned(rows, op.owner) :
          ~AboveThreshold(cosineSimilarity(op.q, r.embedding))

C8_WitnessEmpty ==
    /\ op.name = "clear" /\ ~op.dbError /\ op.count = 0 /\ ~op.threw

\* the row that the insert of chunk stores under id for userId
RowOf(chunk, id, userId) == InsertRow(<<>>, chunk, id, userId)[1]

\* C13: a call addDocuments(chunks, owner) leaves the rows stored before
\* untouched and appends, in input order, the rows of the chunks it
\* inserted, each under a fresh id, the ids being pairwise distinct; without
\* a failing insert every chunk is inserted and the ids of the rows are
\* returned in input order; when an insert fails the call throws, the
\* chunks before the failing one stay stored, and the failing insert is the
\* last one attempted (one id was drawn per attempt).
C13_AddDocuments ==
    [][op'.name = "addDocuments" =>
          LET old == Len(rows)
              m == Len(rows') - old
              inp == op'.input
          IN /\ m >= 0 /\ m <= Len(inp)
             /\ SubSeq(rows', 1, old) = rows
             /\ \A j \in 1..m :
                   /\ rows'[old + j].id > nextId
                   /\ rows'[old + j] = RowOf(inp[j], rows'[old + j].id, op'.owner)
             /\ \A i, j \in 1..Len(rows') : i # j => rows'[i].id # rows'[j].id
             /\ op'.threw = op'.dbError
             /\ ~op'.threw =>
                   /\ m = Len(inp)
                   /\ op'.chunks = [j \in 1..m |-> rows'[old + j].id]
             /\ op'.threw =>
                   /\ m < Len(inp)
                   /\ nextId' - nextId = m + 1]_vars

\* a call on two chunks threw at the second one: the row of the first chunk
\* is stored after rows that were there before
C13_Witness ==
    /\ op.name = "addDocuments" /\ op.threw /\ Len(op.input) = 2
    /\ Len(rows) >= 2
    /\ rows[Len(rows)] = RowOf(op.input[1], nextId - 1, op.owner)


\* the rows of window whose similarity to q exceeds 0.5
AboveOf(window, q) ==
    {r \in window : AboveThreshold(cosineSimilarity(q, r.embedding))}

\* C27: search takes the fallback exactly when the rpc returns an error or
\* throws; the fallback reads at most QueryLimit rows of the owner, and its
\* result is the rows of that window with similarity > 0.5, in descending
\* order of similarity, truncated to topK (filtering first and truncating
\* afterwards, where the code truncates first and filters afterwards).
C27_FallbackEquivalence ==
    op.name = "search" =>
        /\ op.path = "direct" <=> op.rpc \in {"error", "throw"}
        /\ (op.path = "direct" /\ ~op.dbError) =>
              \E window \in SUBSET Owned(rows, op.owner) :
                /\ Cardinality(window) =
                      Min(QueryLimit, Cardinality(Owned(rows, op.owner)))
                /\ \E sorted \in SortedBySimilarity(AboveOf(window, op.q), op.q) :
                      op.chunks = MapChunks(SubSeq(sorted, 1, Min(op.topK, Len(sorted))))

\* a fallback search of an owner with more rows than the window, where the
\* threshold removes a row that the cut to topK had kept
C27_Witness ==
    /\ op.name = "search" /\ op.path = "direct" /\ ~op.dbError
    /\ Cardinality(Owned(rows, op.owner)) > QueryLimit
    /\ op.topK = 2 /\ Len(op.chunks) = 1

\* a fallback search cut to topK = 1 among two rows above the threshold
C27_WitnessCut ==
    /\ op.name = "search" /\ op.path = "direct" /\ ~op.dbError
    /\ op.topK = 1 /\ Len(op.chunks) = 1
    /\ Cardinality(AboveOf(Owned(rows, op.owner), op.q)) >= 2

-----------------------------------------------------------------------------
(* The in-memory VectorStore (src/unnamed/part_001).  Its methods take no  *)
(* owner: one array of documents serves every caller.                      *)

\* addDocuments(chunks): each chunk is pushed under a fresh uuid
memoryAddDocuments(documents, chunks, ids) ==
    documents \o [k \in 1..Len(chunks) |->
                    [id |-> ids[k], embedding |-> chunks[k].embedding,
                     metadata |-> chunks[k].metadata]]

\* search(queryEmbedding, topK): every document is scored, Array.sort with
\* (a, b) => b.similarity - a.similarity (stable: documents of equal
\* similarity keep their insertion order; with a NaN similarity the order
\* is implementation-defined), then .slice(0, topK).filter(> 0.5).
memorySearch(documents, queryEmbedding, topK) ==
    LET sim(k) == cosineSimilarity(queryEmbedding, documents[k].embedding)
        n == Len(documents)
        orders ==
            IF \E k \in 1..n : IsNaN(sim(k)) THEN Perms(1..n)
            ELSE {f \in Perms(1..n) : \A i, j \in 1..n :
                    i < j => \/ SimGT(sim(f[i]), sim(f[j]))
                             \/ (~SimGT(sim(f[j]), sim(f[i])) /\ f[i] < f[j])}
    IN {SelectSeq([i \in 1..Min(topK, n) |-> documents[f[i]]],
                  LAMBDA d : AboveThreshold(
                                cosineSimilarity(queryEmbedding, d.embedding))) :
            f \in orders}

\* getAllDocuments(): return this.documents
memoryGetAllDocuments(documents) == documents

\* clear(): this.documents = []
memoryClear(documents) == <<>>

\* getCount(): this.documents.length
memoryGetCount(documents) == Len(documents)

-----------------------------------------------------------------------------
(* SpecBackends: every call is issued to both stores.  The database of     *)
(* the Supabase store answers every statement (no insert, select or delete *)
(* error); the rpc is either served or missing, so both search paths run.  *)
(* The two stores draw the same uuids.                                     *)

InitBackends == InitStore

BackendsAddDocuments(userId) ==
    \E n \in 1..MaxChunks, fileName \in FileNames :
      \E embs \in [1..n -> Embeddings] :
        LET ts == nextId + 1
            chunks == [i \in 1..n |-> MakeChunk(embs[i], fileName, i - 1, ts)]
            r == addDocuments(rows, chunks, userId, 0)
        IN /\ Len(rows) + n <= MaxPaired
           /\ nextId + n <= MaxIds
           /\ rows' = r.table
           /\ memory' = memoryAddDocuments(memory, chunks, r.ids)
           /\ nextId' = nextId + n
           /\ op' = [NoOp EXCEPT !.name = "addDocuments", !.owner = userId,
                                 !.input = chunks]

BackendsSearch(userId) ==
    \E q \in Queries, topK \in 1..MaxTopK, rpc \in {"ok", "error"} :
      \E res \in search(rows, q, topK, userId, rpc, FALSE),
         mres \in memorySearch(memory, q, topK) :
        /\ op' = [NoOp EXCEPT !.name = "search", !.owner = userId, !.q = q,
                              !.topK = topK, !.chunks = res, !.mem = mres]
        /\ UNCHANGED <<rows, nextId, memory>>

BackendsGetAllDocuments(userId) ==
    \E res \in getAllDocuments(rows, userId, FALSE) :
        /\ op' = [NoOp EXCEPT !.name = "getAllDocuments", !.owner = userId,
                              !.chunks = res,
                              !.mem = memoryGetAllDocuments(memory)]
        /\ UNCHANGED <<rows, nextId, memory>>

BackendsClear(userId) ==
    /\ rows' = clear(rows, userId, FALSE)
    /\ memory' = memoryClear(memory)
    /\ op' = [NoOp EXCEPT !.name = "clear", !.owner = userId]
    /\ UNCHANGED nextId

BackendsGetCount(userId) ==
    /\ op' = [NoOp EXCEPT !.name = "getCount", !.owner = userId,
                          !.count = getCount(rows, userId, FALSE),
                          !.memCount = memoryGetCount(memory)]
    /\ UNCHANGED <<rows, nextId, memory>>

NextBackends ==
    /\ \E userId \in Owners :
          \/ BackendsAddDocuments(userId)
          \/ BackendsSearch(userId)
          \/ BackendsGetAllDocuments(userId)
          \/ BackendsClear(userId)
          \/ BackendsGetCount(userId)
    /\ UNCHANGED <<pdf, ck, reqs, eb, dp>>

SpecBackends == InitBackends /\ [][NextBackends]_vars

\* C22: for every sequence of calls by several owners the two stores return
\* the same results: search and getAllDocuments the same chunks in the same
\* order, getCount the same count.
C22_BackendsAgree ==
    /\ op.name \in {"search", "getAllDocuments"} => op.chunks = op.mem
    /\ op.name = "getCount" => op.count = op.memCount

-----------------------------------------------------------------------------
(* cosineSimilarity as the code computes it, in binary floating point with *)
(* round-to-nearest-even.  JavaScript numbers carry 53 significant bits;   *)
(* the model carries Precision bits.  A positive number is m * 2^e with    *)
(* 2^(Precision-1) <= m < 2^Precision.  Integers below 2^Precision are     *)
(* exact, so the three sums of the loop are computed on integers.          *)

\* Significant bits (53 in the code).  With 6 bits Math.sqrt(n) * Math.sqrt(n)
\* rounds to n for n = 1 and not for n = 2 and n = 3, as it does with 53.
Precision == 6

NumNaN == [kind |-> "NaN", neg |-> FALSE, m |-> 0, e |-> 0]
NumZero == [kind |-> "finite", neg |-> FALSE, m |-> 0, e |-> 0]
NumInfinity == [kind |-> "Infinity", neg |-> FALSE, m |-> 0, e |-> 0]

Exponents == (0 - 2 * Precision - 2)..Precision

\* floor(num * 2^(-e) / den)
ScaledQuotient(num, den, e) ==
    IF e >= 0 THEN num \div (den * 2^e) ELSE (num * 2^(0 - e)) \div den

\* twice the remainder of that division against the divisor: -1, 0 or 1
\* for below, at and above the midpoint of two neighbouring numbers
ScaledHalf(num, den, e) ==
    LET a == IF e >= 0 THEN num ELSE num * 2^(0 - e)
        b == IF e >= 0 THEN den * 2^e ELSE den
        r == a - (a \div b) * b
    IN IF 2 * r > b THEN 1 ELSE IF 2 * r = b THEN 0 ELSE -1

Renormalise(m, e) ==
    IF m = 2^Precision
    THEN [kind |-> "finite", neg |-> FALSE, m |-> 2^(Precision - 1), e |-> e + 1]
    ELSE [kind |-> "finite", neg |-> FALSE, m |-> m, e |-> e]

\* the number nearest to num/den (both positive), ties to even
RoundRatio(num, den) ==
    LET e == CHOOSE x \in Exponents :
                /\ ScaledQuotient(num, den, x) >= 2^(Precision - 1)
                /\ ScaledQuotient(num, den, x) < 2^Precision
        m == ScaledQuotient(num, den, e)
        h == ScaledHalf(num, den, e)
    IN Renormalise(IF h = 1 \/ (h = 0 /\ m % 2 = 1) THEN m + 1 ELSE m, e)

\* Math.sqrt of a non-negative integer
MathSqrt(n) ==
    IF n = 0 THEN NumZero
    ELSE LET e == CHOOSE x \in (0 - Precision)..0 :
                     \E m \in 2^(Precision - 1)..(2^Precision - 1) :
                        m * m <= n * 4^(0 - x) /\ n * 4^(0 - x) < (m + 1) * (m + 1)
             scaled == n * 4^(0 - e)
             m == CHOOSE x \in 2^(Precision - 1)..(2^Precision - 1) :
                     x * x <= scaled /\ scaled < (x + 1) * (x + 1)
         IN Renormalise(IF 4 * scaled > (2 * m + 1) * (2 * m + 1) THEN m + 1 ELSE m, e)

\* x * y on non-negative numbers
Times(x, y) ==
    IF x.m = 0 \/ y.m = 0 THEN NumZero
    ELSE LET e == x.e + y.e
         IN IF e >= 0 THEN RoundRatio(x.m * y.m * 2^e, 1)
            ELSE RoundRatio(x.m * y.m, 2^(0 - e))

\* n / y for an integer n and a non-negative number y; 0/0 is NaN
Over(n, y) ==
    LET abs == IF n < 0 THEN 0 - n ELSE n
        q == IF y.e >= 0 THEN RoundRatio(abs, y.m * 2^(y.e))
             ELSE RoundRatio(abs * 2^(0 - y.e), y.m)
    IN IF y.m = 0
       THEN (IF n = 0 THEN NumNaN ELSE [NumInfinity EXCEPT !.neg = n < 0])
       ELSE IF n = 0 THEN NumZero
       ELSE [q EXCEPT !.neg = n < 0]

\* Math.sqrt(normA) * Math.sqrt(normA) in the place of the denominator
DenominatorOfA(normA, normB) == Times(MathSqrt(normA), MathSqrt(normA))

\* Math.sqrt(normA) * Math.sqrt(normB)
Denominator(normA, normB) == Times(MathSqrt(normA), MathSqrt(normB))

\* cosineSimilarity(a, b) as a number
cosineSimilarityNumber(a, b) ==
    IF Len(a) # Len(b) THEN NumZero
    ELSE Over(Dot(a, b), Denominator(Dot(a, a), Dot(b, b)))

-----------------------------------------------------------------------------
(* SpecCosine: calls of cosineSimilarity on integer vectors *)

MaxDim == 2         \* largest length of a vector
MaxCoord == 1       \* largest absolute value of a component

Vectors == UNION {[1..n -> (0 - MaxCoord)..MaxCoord] : n \in 0..MaxDim}

InitCosine == InitStore

\* one call each way, and the exact value of the quotient
CosineCall ==
    /\ op.name = "none"
    /\ \E a \in Vectors, b \in Vectors :
        op' = [name |-> "cosineSimilarity", a |-> a, b |-> b,
               ab |-> cosineSimilarityNumber(a, b),
               ba |-> cosineSimilarityNumber(b, a),
               exact |-> cosineSimilarity(a, b)]

NextCosine ==
    /\ CosineCall
    /\ UNCHANGED <<rows, nextId, pdf, ck, reqs, eb, dp, memory>>

SpecCosine == InitCosine /\ [][NextCosine]_vars

NumOne == RoundRatio(1, 1)

NonZero(a) == \E i \in 1..Len(a) : a[i] # 0

\* |x - 1| <= 2^(1 - Precision)
NearOne(x) ==
    /\ x.kind = "finite" /\ ~x.neg /\ x.e >= 0 - Precision - 1
    /\ LET scaled == x.m * 2^(x.e + Precision + 1)
           one == 2^(Precision + 1)
       IN scaled - one <= 4 /\ one - scaled <= 4

\* C24: cosineSimilarity(a, b) and cosineSimilarity(b, a) are the same value
\* for vectors of equal length, cosineSimilarity(a, a) is 1 for non-zero a,
\* and vectors of different lengths give 0.
C24_CosineLaws ==
    op.name = "cosineSimilarity" =>
        /\ Len(op.a) = Len(op.b) => op.ab = op.ba
        /\ (op.a = op.b /\ NonZero(op.a)) => op.ab = NumOne
        /\ Len(op.a) # Len(op.b) => op.ab = NumZero

\* C24 as the code keeps it: the same, with cosineSimilarity(a, a) within
\* 2^(1 - Precision) of 1 (and exactly 1 before rounding).
C24_CosineLawsRounded ==
    op.name = "cosineSimilarity" =>
        /\ Len(op.a) = Len(op.b) => op.ab = op.ba
        /\ (op.a = op.b /\ NonZero(op.a)) =>
                NearOne(op.ab) /\ op.exact.n = op.exact.d
        /\ Len(op.a) # Len(op.b) => op.ab = NumZero

\* a vector against itself whose similarity is not 1
C24_Witness ==
    /\ op.name = "cosineSimilarity" /\ op.a = op.b /\ NonZero(op.a)
    /\ op.ab # NumOne

\* two vectors of equal length and different norms, and two of different
\* lengths
C24_WitnessPair ==
    /\ op.name = "cosineSimilarity" /\ Len(op.a) = Len(op.b)
    /\ Dot(op.a, op.a) # Dot(op.b, op.b) /\ op.ab.m # 0

C24_WitnessLengths ==
    op.name = "cosineSimilarity" /\ Len(op.a) # Len(op.b)

-----------------------------------------------------------------------------
(* processPDF and its three strategies (document-processor.ts) *)

\* a thrown value: an Error with a message, or something that is no Error
Err(msg) == [isError |-> TRUE, message |-> msg]
NonError == [isError |-> FALSE, message |-> <<>>]

\* outcome of a call: a ProcessedDocument (its text), a throw, or none yet
Ok(text) == [kind |-> "ok", text |-> text, error |-> NonError]
Throw(e) == [kind |-> "throw", text |-> <<>>, error |-> e]
None == [kind |-> "none", text |-> <<>>, error |-> NonError]

\* error instanceof Error ? error.message : 'Unknown error'
MessageOf(e) == IF e.isError THEN e.message ELSE <<"Unknown error">>

\* What a parsing library can do with the buffer: throw, or produce a text
\* (empty, blank, or with content c, with or without surrounding blanks).
LibOutcomes(name, c) ==
    {Throw(Err(<<name>>)), Throw(NonError)}
        \cup {Ok(t) : t \in {<<>>, <<" ">>, <<c>>, <<" ", c, "\n">>}}

\* Method 1: pdf-parse
processPDFWithPDFParse(lib) ==
    IF lib.kind = "throw" THEN lib
    ELSE IF lib.text = <<>> \/ Len(Trim(lib.text)) = 0
         THEN Throw(Err(<<"pdf-parse extracted empty text">>))
         ELSE Ok(Trim(lib.text))

\* Method 2: pdf2json.  The handler of pdfParser_dataReady; lib is the text
\* assembled from getRawTextContent or the pages, or a throw while doing so.
dataReadyHandler(lib) ==
    IF lib.kind = "throw"
    THEN Throw(Err(<<"pdf2json extraction error: ">> \o MessageOf(lib.error)))
    ELSE IF lib.text = <<>> \/ Len(Trim(lib.text)) = 0
         THEN Throw(Err(<<"pdf2json extracted empty text">>))
         ELSE Ok(Trim(lib.text))

\* the handler of pdfParser_dataError
dataErrorHandler(errData) ==
    Throw(Err(<<"pdf2json error: ">> \o errData.message))

\* the timer callback
timeoutHandler == Throw(Err(<<"pdf2json parsing timeout">>))

\* the catch around pdfParser.parseBuffer(buffer)
parseErrorHandler(parseError) ==
    Throw(Err(<<"pdf2json parse error: ">> \o MessageOf(parseError)))

\* Settle with the last call winning
SettleLast(promise, outcome) == outcome

\* resolve / reject of the promise: only the first call settles it
Settle(promise, outcome) ==
    IF promise.kind = "none" THEN outcome ELSE promise

\* clearTimeout(timeout)
ClearTimeout(timer) == IF timer = "armed" THEN "cleared" ELSE timer

\* Method 3: pdfjs-dist; lib is fullText or a throw
processPDFWithPDFJSDist(lib) ==
    IF lib.kind = "throw" THEN lib
    ELSE IF lib.text = <<>> \/ Len(Trim(lib.text)) = 0
         THEN Throw(Err(<<"pdfjs-dist extracted empty text">>))
         ELSE Ok(Trim(lib.text))

\* processPDFError reporting the first strategy's error instead of the last
processPDFErrorFirst(error1, error2, error3) ==
    Err(<<"Failed to extract text from PDF. Tried 3 different methods. The PDF may be image-based, encrypted, or corrupted. Last error: ">>
        \o MessageOf(error1))

\* the error thrown by processPDF when the third strategy has thrown
processPDFError(error1, error2, error3) ==
    Err(<<"Failed to extract text from PDF. Tried 3 different methods. The PDF may be image-based, encrypted, or corrupted. Last error: ">>
        \o MessageOf(error3))

\* AfterStrategy going on with the next strategy after a success too
AfterStrategyAlways(outcome, next) == next

\* the nested try/catch: return on success, otherwise go on with next
AfterStrategy(outcome, next) ==
    IF outcome.kind = "ok" THEN "done" ELSE next

Strategies == {"A", "B", "C"}

InitPDF ==
    /\ pdf = [pc |-> "A", invoked |-> <<>>,
              out |-> [st \in Strategies |-> None],
              timer |-> "unset", parser |-> "idle", result |-> None]
    /\ rows = <<>>
    /\ nextId = 0
    /\ op = NoOp
    /\ ck = CkIdle
    /\ reqs = <<>>
    /\ eb = EbIdle
    /\ dp = DpIdle
    /\ memory = <<>>

\* try { return await processPDFWithPDFParse(buffer, fileName) }
PdfRunA ==
    /\ pdf.pc = "A"
    /\ \E lib \in LibOutcomes("pdf-parse failure", "a") :
         LET o == processPDFWithPDFParse(lib)
         IN pdf' = [pdf EXCEPT !.invoked = Append(@, "A"), !.out["A"] = o,
                               !.pc = AfterStrategy(o, "B"),
                               !.result = IF o.kind = "ok" THEN o ELSE @]

\* processPDFWithPDF2JSON is called: the import may throw; otherwise the
\* promise is created, the timer armed, the handlers registered and
\* parseBuffer called, which may throw at once.
PdfStartB ==
    /\ pdf.pc = "B"
    /\ \/ \E e \in {Err(<<"pdf2json import failure">>), NonError} :
            pdf' = [pdf EXCEPT !.invoked = Append(@, "B"),
                               !.out["B"] = Throw(e), !.pc = "awaitB"]
       \/ \E e \in {Err(<<"pdf2json parseBuffer failure">>), NonError} :
            pdf' = [pdf EXCEPT !.invoked = Append(@, "B"),
                               !.out["B"] = Settle(@, parseErrorHandler(e)),
                               !.timer = ClearTimeout("armed"),
                               !.parser = "done", !.pc = "awaitB"]
       \/ pdf' = [pdf EXCEPT !.invoked = Append(@, "B"), !.timer = "armed",
                             !.parser = "running", !.pc = "awaitB"]

\* the parser emits pdfParser_dataError, possibly after the timer has fired
PdfDataError ==
    /\ pdf.parser = "running"
    /\ pdf' = [pdf EXCEPT !.timer = ClearTimeout(@), !.parser = "done",
                          !.out["B"] = Settle(@,
                              dataErrorHandler(Err(<<"pdf2json parser failure">>)))]

\* the parser emits pdfParser_dataReady, possibly after the timer has fired
PdfDataReady ==
    /\ pdf.parser = "running"
    /\ \E lib \in LibOutcomes("pdf2json text failure", "b") :
         pdf' = [pdf EXCEPT !.timer = ClearTimeout(@), !.parser = "done",
                            !.out["B"] = Settle(@, dataReadyHandler(lib))]

\* the 30 second timer fires
PdfTimeout ==
    /\ pdf.timer = "armed"
    /\ pdf' = [pdf EXCEPT !.timer = "fired",
                          !.out["B"] = Settle(@, timeoutHandler)]

\* processPDF resumes when the promise of strategy B has settled
PdfResumeB ==
    /\ pdf.pc = "awaitB"
    /\ pdf.out["B"].kind # "none"
    /\ pdf' = [pdf EXCEPT !.pc = AfterStrategy(pdf.out["B"], "C"),
                          !.result = IF pdf.out["B"].kind = "ok"
                                     THEN pdf.out["B"] ELSE @]

\* try { return await processPDFWithPDFJSDist(buffer, fileName) }
\* catch (error3) { throw new Error(...) }
PdfRunC ==
    /\ pdf.pc = "C"
    /\ \E lib \in LibOutcomes("pdfjs-dist failure", "c") :
         LET o == processPDFWithPDFJSDist(lib)
         IN pdf' = [pdf EXCEPT !.invoked = Append(@, "C"), !.out["C"] = o,
                               !.pc = "done",
                               !.result =
                                  IF o.kind = "ok" THEN o
                                  ELSE Throw(processPDFError(pdf.out["A"].error,
                                                             pdf.out["B"].error,
                                                             o.error))]

NextPDF ==
    /\ \/ PdfRunA
       \/ PdfStartB
       \/ PdfDataError
       \/ PdfDataReady
       \/ PdfTimeout
       \/ PdfResumeB
       \/ PdfRunC
    /\ UNCHANGED <<rows, nextId, op, ck, reqs, eb, dp, memory>>

SpecPDF == InitPDF /\ [][NextPDF]_vars

-----------------------------------------------------------------------------
(* Properties of processPDF (SpecPDF) *)

\* C6: the strategies are invoked in the order A, B, C; B only after A has
\* raised and C only after B has raised; the first strategy that succeeds
\* gives the returned text and no later strategy is invoked; when A and B
\* raise and C succeeds, processPDF returns C's text and no error.
C6_FallbackOrder ==
    /\ pdf.invoked \in {<<>>, <<"A">>, <<"A", "B">>, <<"A", "B", "C">>}
    /\ Len(pdf.invoked) >= 2 => pdf.out["A"].kind = "throw"
    /\ Len(pdf.invoked) >= 3 => pdf.out["B"].kind = "throw"
    /\ \A st \in Strategies :
          (pdf.out[st].kind = "ok" /\ pdf.pc = "done") =>
              /\ pdf.invoked[Len(pdf.invoked)] = st
              /\ pdf.result = Ok(pdf.out[st].text)
    /\ (pdf.pc = "done" /\ pdf.out["A"].kind = "throw"
            /\ pdf.out["B"].kind = "throw" /\ pdf.out["C"].kind = "ok") =>
          pdf.result = Ok(pdf.out["C"].text)

\* A and B have raised and processPDF has returned the text of C
C6_Witness ==
    /\ pdf.pc = "done"
    /\ pdf.out["A"].kind = "throw" /\ pdf.out["B"].kind = "throw"
    /\ pdf.result = Ok(<<"c">>)

\* C7: when all three strategies raise, processPDF throws one error whose
\* message ends with the message of strategy C's error (not A's or B's) and
\* says that the PDF may be image-based, encrypted, or corrupted; a returned
\* document never has a text that is empty after trim.
C7_AggregateError ==
    pdf.pc = "done" =>
        /\ (\A st \in Strategies : pdf.out[st].kind = "throw") =>
              /\ pdf.result.kind = "throw"
              /\ pdf.result.error.isError
              /\ pdf.result.error.message =
                    <<"Failed to extract text from PDF. Tried 3 different methods. The PDF may be image-based, encrypted, or corrupted. Last error: ">>
                        \o MessageOf(pdf.out["C"].error)
        /\ pdf.result.kind = "throw" =>
              \A st \in Strategies : pdf.out[st].kind = "throw"
        /\ pdf.result.kind = "ok" => Len(Trim(pdf.result.text)) > 0

\* all three strategies have raised, each with a different message
C7_Witness ==
    /\ pdf.pc = "done" /\ pdf.result.kind = "throw"
    /\ \A st \in Strategies : pdf.out[st].kind = "throw"
    /\ MessageOf(pdf.out["C"].error) # MessageOf(pdf.out["A"].error)
    /\ MessageOf(pdf.out["C"].error) # MessageOf(pdf.out["B"].error)

\* C25: when the timer fires before the parser reports data or an error,
\* strategy B has failed with the timeout and processPDF goes on with
\* strategy C; a parser callback that arrives after the timeout changes
\* neither the outcome of B, nor the position or the result of processPDF;
\* the result is then C's text or the aggregate error; and the promise of
\* strategy B, once settled, keeps its outcome.
C25_TimeoutRace ==
    [][/\ pdf.out["B"].kind # "none" => pdf'.out["B"] = pdf.out["B"]
       /\ pdf'.timer = "fired" =>
            /\ pdf'.out["B"] = timeoutHandler
            /\ pdf'.pc \in {"awaitB", "C", "done"}
            /\ pdf.pc = "awaitB" /\ pdf'.pc # "awaitB" => pdf'.pc = "C"
            /\ pdf'.pc = "done" =>
                 /\ pdf'.invoked = <<"A", "B", "C">>
                 /\ pdf'.result \in
                       {Ok(pdf'.out["C"].text),
                        Throw(processPDFError(pdf'.out["A"].error,
                                              pdf'.out["B"].error,
                                              pdf'.out["C"].error))}
                 /\ pdf'.result.kind = "ok" <=> pdf'.out["C"].kind = "ok"
       /\ (pdf.timer = "fired" /\ pdf.parser = "running" /\ pdf'.parser = "done") =>
            /\ pdf'.out = pdf.out
            /\ pdf'.pc = pdf.pc
            /\ pdf'.result = pdf.result
            /\ pdf'.invoked = pdf.invoked
      ]_vars

\* the timer has fired, the parser has reported its text afterwards, and
\* processPDF has returned the text of strategy C
C25_Witness ==
    /\ pdf.timer = "fired" /\ pdf.parser = "done"
    /\ pdf.pc = "done" /\ pdf.result = Ok(<<"c">>)

\* the same with the late callback arriving after processPDF has returned
C25_WitnessPending ==
    /\ pdf.timer = "fired" /\ pdf.parser = "running" /\ pdf.pc = "done"

-----------------------------------------------------------------------------
(* splitTextIntoChunks (document-processor.ts) *)

Alphabet == {"a", ".", " ", "\n"}

Texts == UNION {[1..n -> Alphabet] : n \in 0..MaxTextLen}

ShortTexts == UNION {[1..n -> Alphabet] : n \in 0..MaxShortLen}

Max(a, b) == IF a > b THEN a ELSE b

\* Slice taking the character at index to as well
SliceInclusive(t, from, to) == SubSeq(t, from + 1, Min(to + 1, Len(t)))

\* text.slice(from, to) with 0 <= from <= to <= text.length
Slice(t, from, to) == SubSeq(t, from + 1, to)

\* chunk.lastIndexOf(c): zero-based, -1 when c does not occur
LastIndexOf(t, c) ==
    LET hits == {i \in 1..Len(t) : t[i] = c}
    IN IF hits = {} THEN -1
       ELSE (CHOOSE i \in hits : \A j \in hits : j <= i) - 1

\* BreakPoint looking for the last newline only
BreakPointNewline(chunk) == LastIndexOf(chunk, "\n")

\* Math.max(lastPeriod, lastNewline)
BreakPoint(chunk) == Max(LastIndexOf(chunk, "."), LastIndexOf(chunk, "\n"))

\* UseBreak as the truthiness test if (breakPoint)
UseBreakTruthy(breakPoint, chunkSize) == breakPoint # 0

\* breakPoint > chunkSize * 0.5
UseBreak(breakPoint, chunkSize) == 2 * breakPoint > chunkSize

\* StartAfterOverlap stepping forward by the overlap
StartAfterOverlapForward(end, overlap) == end + overlap

\* start = end - overlap
StartAfterOverlap(end, overlap) == end - overlap

\* Iterate moving the cursor to the end of the slice after a break
IterateSkipToEnd(text, chunkSize, overlap, start) ==
    LET end == Min(start + chunkSize, Len(text))
        chunk == Slice(text, start, end)
        breakPoint == BreakPoint(chunk)
    IN IF end < Len(text)
       THEN IF UseBreak(breakPoint, chunkSize)
            THEN [start |-> end,
                  chunk |-> Slice(chunk, 0, breakPoint + 1),
                  to |-> start + breakPoint + 1]
            ELSE [start |-> StartAfterOverlap(end, overlap),
                  chunk |-> chunk, to |-> end]
       ELSE [start |-> end, chunk |-> chunk, to |-> end]

\* One iteration of the while loop at cursor start: the new cursor and the
\* chunk before trimming (to is the end of that chunk in the text).
Iterate(text, chunkSize, overlap, start) ==
    LET end == Min(start + chunkSize, Len(text))
        chunk == Slice(text, start, end)
        breakPoint == BreakPoint(chunk)
    IN IF end < Len(text)
       THEN IF UseBreak(breakPoint, chunkSize)
            THEN [start |-> start + breakPoint + 1,
                  chunk |-> Slice(chunk, 0, breakPoint + 1),
                  to |-> start + breakPoint + 1]
            ELSE [start |-> StartAfterOverlap(end, overlap),
                  chunk |-> chunk, to |-> end]
       ELSE [start |-> end, chunk |-> chunk, to |-> end]

\* PushTrimmed without the test of the trimmed length
PushAlways(chunks, chunk) == Append(chunks, Trim(chunk))

\* if (chunk.trim().length > 0) chunks.push(chunk.trim())
PushTrimmed(chunks, chunk) ==
    IF Len(Trim(chunk)) > 0 THEN Append(chunks, Trim(chunk)) ELSE chunks

InitChunk ==
    /\ ck = [pc |-> "call", text |-> <<>>, chunkSize |-> 1, overlap |-> 0,
             start |-> 0, chunks |-> <<>>, slices |-> <<>>]
    /\ rows = <<>>
    /\ nextId = 0
    /\ op = NoOp
    /\ pdf = PdfIdle
    /\ reqs = <<>>
    /\ eb = EbIdle
    /\ dp = DpIdle
    /\ memory = <<>>

\* splitTextIntoChunks(text, chunkSize, overlap) is called:
\* const chunks = []; let start = 0
ChunkCallOn(texts, maxSize) ==
    /\ ck.pc = "call"
    /\ \E text \in texts, chunkSize \in 1..maxSize :
         \E overlap \in 0..(chunkSize - 1) :
            ck' = [pc |-> "loop", text |-> text, chunkSize |-> chunkSize,
                   overlap |-> overlap, start |-> 0, chunks |-> <<>>,
                   slices |-> <<>>]

ChunkCall == ChunkCallOn(Texts, MaxChunkSize)

ChunkCallShort == ChunkCallOn(ShortTexts, MaxChunkSize)

\* calls with chunk sizes that leave room for a break point before the end
\* of a slice, on texts of letters, full stops and newlines
StepTexts == UNION {[1..n -> {"a", ".", "\n"}] : n \in 0..MaxStepLen}

ChunkCallStep == ChunkCallOn(StepTexts, MaxStepSize)

\* one iteration of while (start < text.length); slices records where each
\* chunk was taken from and whether it was pushed
ChunkLoop ==
    /\ ck.pc = "loop"
    /\ ck.start < Len(ck.text)
    /\ LET it == Iterate(ck.text, ck.chunkSize, ck.overlap, ck.start)
       IN ck' = [ck EXCEPT !.start = it.start,
                           !.chunks = PushTrimmed(@, it.chunk),
                           !.slices = Append(@, [from |-> ck.start, to |-> it.to,
                                                 pushed |-> Len(Trim(it.chunk)) > 0])]

\* the loop condition fails: return chunks
ChunkReturn ==
    /\ ck.pc = "loop"
    /\ ck.start >= Len(ck.text)
    /\ ck' = [ck EXCEPT !.pc = "done"]

NextChunk ==
    /\ \/ ChunkCall
       \/ ChunkLoop
       \/ ChunkReturn
    /\ UNCHANGED <<rows, nextId, op, pdf, reqs, eb, dp, memory>>

SpecChunk == InitChunk /\ [][NextChunk]_vars

NextChunkStep ==
    /\ \/ ChunkCallStep
       \/ ChunkLoop
       \/ ChunkReturn
    /\ UNCHANGED <<rows, nextId, op, pdf, reqs, eb, dp, memory>>

SpecChunkStep == InitChunk /\ [][NextChunkStep]_vars

\* The function is synchronous: once called, it runs until it returns.
ChunkRun ==
    /\ \/ ChunkLoop
       \/ ChunkReturn
    /\ UNCHANGED <<rows, nextId, op, pdf, reqs, eb, dp, memory>>

NextChunkRun ==
    \/ ChunkCallShort /\ UNCHANGED <<rows, nextId, op, pdf, reqs, eb, dp, memory>>
    \/ ChunkRun

SpecChunkRun == InitChunk /\ [][NextChunkRun]_vars /\ WF_vars(ChunkRun)

-----------------------------------------------------------------------------
(* Properties of splitTextIntoChunks (SpecChunk, SpecChunkRun) *)

\* C9: with 0 < overlap < chunkSize, every loop iteration strictly
\* increases the cursor start (which never passes the end of the text), and
\* the function returns.  Checked under SpecChunkRun.
C9_ChunkerTerminates ==
    /\ [][(ck.overlap > 0 /\ ck.pc = "loop" /\ ck.start < Len(ck.text))
             => (ck'.start > ck.start /\ ck'.start <= Len(ck.text))]_vars
    /\ (ck.pc = "loop" /\ ck.overlap > 0) ~> (ck.pc = "done")

\* a run with overlap > 0 that returned after three or more iterations, the
\* cursor having stepped back by the overlap after a slice
C9_Witness ==
    /\ ck.pc = "done" /\ ck.overlap > 0 /\ Len(ck.slices) >= 3
    /\ \E i \in 1..(Len(ck.slices) - 1) :
          ck.slices[i + 1].from = ck.slices[i].to - ck.overlap

\* the slices that were pushed, in order
PushedSlices == SelectSeq(ck.slices, LAMBDA sl : sl.pushed)

\* position p of the text (zero-based) is carried, at the right place, by
\* the k-th produced chunk
CarriedBy(p, k) ==
    LET sl == PushedSlices[k]
        raw == Slice(ck.text, sl.from, sl.to)
        first == sl.from + (Len(raw) - Len(TrimStart(raw)))
    IN /\ first <= p
       /\ p < first + Len(ck.chunks[k])
       /\ ck.chunks[k][p - first + 1] = ck.text[p + 1]

\* C10: with 0 < overlap < chunkSize, the slices start at 0, end at the end
\* of the text, follow each other in order without a gap (the next one
\* starts at or before the end of the previous one), and the produced chunks
\* carry every character of the text except white space trimmed at the ends
\* of slices.
C10_ChunkCoverage ==
    (ck.pc = "done" /\ ck.overlap > 0) =>
        /\ Len(ck.text) > 0 =>
              /\ ck.slices # <<>>
              /\ ck.slices[1].from = 0
              /\ ck.slices[Len(ck.slices)].to = Len(ck.text)
        /\ \A i \in 1..(Len(ck.slices) - 1) :
              /\ ck.slices[i].from < ck.slices[i + 1].from
              /\ ck.slices[i + 1].from <= ck.slices[i].to
        /\ Len(PushedSlices) = Len(ck.chunks)
        /\ \A p \in 0..(Len(ck.text) - 1) :
              \/ \E k \in 1..Len(ck.chunks) : CarriedBy(p, k)
              \/ ck.text[p + 1] \in WhiteSpace

\* a finished run with overlap > 0 in which one slice follows a break point,
\* one overlaps its predecessor and a slice lost white space to trimming
C10_Witness ==
    /\ ck.pc = "done" /\ ck.overlap > 0 /\ Len(ck.chunks) >= 2
    /\ \E i \in 1..(Len(ck.slices) - 1) :
          ck.slices[i + 1].from = ck.slices[i].to
    /\ \E i \in 1..(Len(ck.slices) - 1) :
          ck.slices[i + 1].from < ck.slices[i].to
    /\ \E k \in 1..Len(ck.chunks) :
          Len(ck.chunks[k]) < PushedSlices[k].to - PushedSlices[k].from

\* the text holds white space only (the empty text included)
Blank(text) == \A i \in 1..Len(text) : text[i] \in WhiteSpace

\* C11: every chunk collected by splitTextIntoChunks, during the loop and
\* at the return, is non-empty and equal to its own trim; a text of white
\* space only, or the empty text, returns the empty sequence of chunks.
C11_ChunkNonEmpty ==
    /\ \A k \in 1..Len(ck.chunks) :
          /\ Len(ck.chunks[k]) > 0
          /\ Trim(ck.chunks[k]) = ck.chunks[k]
    /\ (ck.pc = "done" /\ Blank(ck.text)) => ck.chunks = <<>>

\* a returned run in which one slice of white space was dropped and a chunk
\* was shortened by the trim
C11_Witness ==
    /\ ck.pc = "done"
    /\ ck.chunks # <<>>
    /\ \E i \in 1..Len(ck.slices) : ~ck.slices[i].pushed
    /\ \E k \in 1..Len(ck.chunks) :
          Len(ck.chunks[k]) < PushedSlices[k].to - PushedSlices[k].from

\* a returned run on a text of white space taken in two or more slices
C11_WitnessBlank ==
    /\ ck.pc = "done"
    /\ Blank(ck.text)
    /\ Len(ck.slices) >= 2
    /\ ck.chunks = <<>>

\* zero-based positions of the slice of the text at [from, to) that hold a
\* full stop or a newline, relative to from
Breaks(text, from, to) ==
    {i \in 0..(to - from - 1) : text[from + i + 1] \in {".", "\n"}}

\* C28: on a slice that does not reach the end of the text, if the last
\* full stop or newline of the slice is at an index breakPoint with
\* breakPoint > chunkSize * 0.5, the chunk is the slice cut to breakPoint + 1
\* characters (it ends with that character) and the next slice starts at
\* the character after it; otherwise the chunk is the whole slice and the
\* next slice starts overlap characters before its end; on the slice that
\* reaches the end of the text the cursor moves to the end and the loop ends.
C28_StepRule ==
    [][(ck.pc = "loop" /\ ck'.pc = "loop" /\ ck.start < Len(ck.text)) =>
         LET start == ck.start
             end == Min(start + ck.chunkSize, Len(ck.text))
             breaks == Breaks(ck.text, start, end)
             late == {i \in breaks : 2 * i > ck.chunkSize}
             sl == ck'.slices[Len(ck'.slices)]
         IN /\ Len(ck'.slices) = Len(ck.slices) + 1
            /\ sl.from = start
            /\ sl.pushed =>
                 ck'.chunks = Append(ck.chunks, Trim(Slice(ck.text, sl.from, sl.to)))
            /\ ~sl.pushed => ck'.chunks = ck.chunks
            /\ (end < Len(ck.text) /\ late # {}) =>
                 \E breakPoint \in late :
                    /\ \A i \in breaks : i <= breakPoint
                    /\ sl.to = start + breakPoint + 1
                    /\ ck.text[sl.to] \in {".", "\n"}
                    /\ ck'.start = sl.to
            /\ (end < Len(ck.text) /\ late = {}) =>
                 /\ sl.to = end
                 /\ ck'.start = end - ck.overlap
            /\ end = Len(ck.text) =>
                 /\ sl.to = end
                 /\ ck'.start = end
                 /\ ck'.start >= Len(ck'.text)
      ]_vars

\* a run with overlap > 0 in which a slice was cut at a break point before
\* its end and the next slice started right after the break
C28_Witness ==
    /\ ck.pc \in {"loop", "done"} /\ ck.overlap > 0
    /\ \E i \in 1..(Len(ck.slices) - 1) :
          /\ ck.slices[i].to < Min(ck.slices[i].from + ck.chunkSize, Len(ck.text))
          /\ ck.slices[i + 1].from = ck.slices[i].to

\* a run in which the next slice started overlap characters before the end
\* of a slice that holds a break point in its first half
C28_WitnessOverlap ==
    /\ ck.pc \in {"loop", "done"} /\ ck.overlap > 0
    /\ \E i \in 1..(Len(ck.slices) - 1) :
          /\ ck.slices[i + 1].from = ck.slices[i].to - ck.overlap
          /\ Breaks(ck.text, ck.slices[i].from, ck.slices[i].to) # {}

\* chunk is a run of consecutive characters of text
SubstringOf(chunk, text) ==
    \E from \in 0..(Len(text) - Len(chunk)) :
        \A i \in 1..Len(chunk) : chunk[i] = text[from + i]

\* C29: for every text and every chunkSize and overlap with
\* 0 <= overlap < chunkSize, every chunk collected by splitTextIntoChunks
\* holds between 1 and chunkSize characters and is a contiguous substring
\* of the text.
C29_ChunkSizeBound ==
    ck.pc \in {"loop", "done"} =>
        \A k \in 1..Len(ck.chunks) :
            /\ 1 <= Len(ck.chunks[k])
            /\ Len(ck.chunks[k]) <= ck.chunkSize
            /\ SubstringOf(ck.chunks[k], ck.text)

\* a returned run with a chunk of chunkSize characters and a chunk that the
\* trim has made shorter than its slice
C29_Witness ==
    /\ ck.pc = "done" /\ ck.chunkSize >= 2
    /\ \E k \in 1..Len(ck.chunks) : Len(ck.chunks[k]) = ck.chunkSize
    /\ \E k \in 1..Len(ck.chunks) :
          Len(ck.chunks[k]) < PushedSlices[k].to - PushedSlices[k].from

-----------------------------------------------------------------------------
(* splitTextIntoChunks on three sentences of equal length (SpecScenario) *)

\* chunkSize: number = 1000, overlap: number = 200
DefaultChunkSize == 1000
DefaultOverlap == 200

\* the overlaps of the scenario: reduced ones and the default
ScenarioOverlaps == (1..MaxScale) \cup {DefaultOverlap}

\* a sentence of length L: L - 1 times the character c, then '.'
Sentence(c, L) == [i \in 1..L |-> IF i = L THEN "." ELSE c]

\* splitTextIntoChunks(text, 5 * overlap, overlap) on three sentences of
\* length 4 * overlap: with the default overlap these are sentences of 800
\* characters, a text of 2400 characters and chunkSize 1000
ChunkCallScenario ==
    /\ ck.pc = "call"
    /\ \E overlap \in ScenarioOverlaps, c1 \in {"a", " "}, c2 \in {"a", " "},
          c3 \in {"a", " "} :
         LET L == 4 * overlap
         IN ck' = [pc |-> "loop",
                   text |-> Sentence(c1, L) \o Sentence(c2, L) \o Sentence(c3, L),
                   chunkSize |-> 5 * overlap, overlap |-> overlap, start |-> 0,
                   chunks |-> <<>>, slices |-> <<>>]

NextScenario ==
    /\ \/ ChunkCallScenario
       \/ ChunkLoop
       \/ ChunkReturn
    /\ UNCHANGED <<rows, nextId, op, pdf, reqs, eb, dp, memory>>

SpecScenario == InitChunk /\ [][NextScenario]_vars

\* C12: three sentences of equal length L, each ending in '.', split with
\* chunkSize and overlap in the proportions L : chunkSize : overlap =
\* 800 : 1000 : 200 (the text of 2400 characters included), give exactly 3
\* chunks; the k-th chunk is the trimmed k-th sentence and ends with '.'.
C12_ThreeSentences ==
    ck.pc = "done" =>
        /\ Len(ck.chunks) = 3
        /\ \A k \in 1..3 :
              /\ ck.chunks[k][Len(ck.chunks[k])] = "."
              /\ ck.chunks[k] =
                    Trim(Slice(ck.text, 4 * ck.overlap * (k - 1), 4 * ck.overlap * k))

\* the run on the text of 2400 characters with chunkSize 1000 and overlap
\* 200 has returned
C12_Witness ==
    /\ ck.pc = "done"
    /\ Len(ck.text) = 2400
    /\ ck.chunkSize = DefaultChunkSize
    /\ ck.overlap = DefaultOverlap
    /\ Len(ck.chunks) = 3

-----------------------------------------------------------------------------
(* generateEmbeddings (embeddings.ts): one run, one settled call a step *)

EmbedTexts == {"t1", "t2"}

\* the vector the embedding model computes for a text
ProviderVector(text) == IF text = "t1" THEN <<1, 1, 0>> ELSE <<1, 0, 0>>

\* a promise of model.embedContent(text) that has not settled
Unsettled == [state |-> "pending", shape |-> "", vector |-> <<>>, error |-> NonError]

\* how model.embedContent(text) can settle: with a result whose embedding is
\* an array, an object with values, or missing; or with a thrown value
EmbedOutcomes(text) ==
    {[state |-> "fulfilled", shape |-> sh,
      vector |-> IF sh = "none" THEN <<>> ELSE ProviderVector(text),
      error |-> NonError] : sh \in {"array", "values", "none"}}
      \cup {[state |-> "rejected", shape |-> "", vector |-> <<>>, error |-> e] :
               e \in {Err(<<"quota exceeded">>), NonError}}

\* the branches of the results.map callback that return a vector
Usable(result) == result.shape \in {"array", "values"}

\* PromiseAllValues collecting the results as they arrive
PromiseAllByArrival(promises, arrived) ==
    [k \in 1..Len(arrived) |-> promises[arrived[k]]]

\* the value of Promise.all(embeddingPromises): the results by index
PromiseAllValues(promises, arrived) == promises

\* Promise.all after promise i settled with outcome o: it rejects with the
\* first rejection, and fulfils when every promise has fulfilled
PromiseAll(all, promises, i, o) ==
    IF all.state # "pending" THEN all
    ELSE IF o.state = "rejected" THEN [state |-> "rejected", error |-> o.error]
    ELSE IF \A j \in 1..Len(promises) : j # i => promises[j].state = "fulfilled"
         THEN [state |-> "fulfilled", error |-> NonError]
    ELSE all

\* throw new Error(`Failed to generate embeddings: ${...}`)
EmbeddingsError(e) == Err(<<"Failed to generate embeddings: ">> \o MessageOf(e))

\* generateEmbeddings(texts): texts.map(text => model.embedContent(text))
\* issues every call, then the function awaits Promise.all
EbCall ==
    /\ eb.pc = "call"
    /\ \E n \in 0..MaxTexts : \E texts \in [1..n -> EmbedTexts] :
         eb' = [pc |-> "await", texts |-> texts,
                issued |-> texts,
                promises |-> [i \in 1..n |-> Unsettled],
                arrived |-> <<>>,
                all |-> [state |-> IF n = 0 THEN "fulfilled" ELSE "pending",
                         error |-> NonError],
                threw |-> FALSE, error |-> NonError, result |-> <<>>]

\* the call for texts[i] settles, before or after the function has finished
EbSettle(i) ==
    /\ eb.pc \in {"await", "done"}
    /\ i \in 1..Len(eb.promises)
    /\ eb.promises[i].state = "pending"
    /\ \E o \in EmbedOutcomes(eb.issued[i]) :
         eb' = [eb EXCEPT !.promises[i] = o,
                          !.arrived = Append(@, i),
                          !.all = PromiseAll(@, eb.promises, i, o)]

\* the await returns or throws: results.map(...) or the catch block
EbResume ==
    /\ eb.pc = "await"
    /\ eb.all.state # "pending"
    /\ LET results == PromiseAllValues(eb.promises, eb.arrived)
       IN eb' = [eb EXCEPT
             !.pc = "done",
             !.threw = \/ eb.all.state = "rejected"
                       \/ \E i \in 1..Len(results) : ~Usable(results[i]),
             !.error =
                 IF eb.all.state = "rejected" THEN EmbeddingsError(eb.all.error)
                 ELSE IF \E i \in 1..Len(results) : ~Usable(results[i])
                      THEN EmbeddingsError(Err(<<"No embedding returned from Gemini">>))
                 ELSE NonError,
             !.result =
                 IF eb.all.state = "fulfilled"
                       /\ \A i \in 1..Len(results) : Usable(results[i])
                 THEN [i \in 1..Len(results) |-> results[i].vector]
                 ELSE <<>>]

InitEmbed ==
    /\ eb = [pc |-> "call", texts |-> <<>>, issued |-> <<>>, promises |-> <<>>,
             arrived |-> <<>>, all |-> [state |-> "pending", error |-> NonError],
             threw |-> FALSE, error |-> NonError, result |-> <<>>]
    /\ rows = <<>>
    /\ nextId = 0
    /\ op = NoOp
    /\ pdf = PdfIdle
    /\ ck = CkIdle
    /\ reqs = <<>>
    /\ dp = DpIdle
    /\ memory = <<>>

NextEmbed ==
    /\ \/ EbCall
       \/ \E i \in 1..MaxTexts : EbSettle(i)
       \/ EbResume
    /\ UNCHANGED <<rows, nextId, op, pdf, ck, reqs, dp, memory>>

SpecEmbed == InitEmbed /\ [][NextEmbed]_vars

-----------------------------------------------------------------------------
(* Properties of generateEmbeddings (SpecEmbed) *)

\* C16: generateEmbeddings issues one embedContent call per text, all of
\* them before it awaits any; and whatever the order in which the calls
\* settle, a run that returns gives a sequence as long as texts whose i-th
\* element is the vector the model produced for texts[i].
C16_EmbeddingsOrder ==
    /\ eb.pc \in {"await", "done"} => eb.issued = eb.texts
    /\ (eb.pc = "done" /\ ~eb.threw) =>
          /\ Len(eb.result) = Len(eb.texts)
          /\ \A i \in 1..Len(eb.texts) :
                /\ eb.promises[i].state = "fulfilled"
                /\ eb.result[i] = eb.promises[i].vector
                /\ eb.result[i] = ProviderVector(eb.texts[i])

\* a run on different texts returned although the calls settled in another
\* order than they were issued
C16_Witness ==
    /\ eb.pc = "done" /\ ~eb.threw
    /\ Len(eb.texts) >= 2
    /\ eb.texts[1] # eb.texts[2]
    /\ eb.arrived[1] # 1

\* the call for position i (from 1) failed: it was rejected, or its result
\* holds no usable vector
FailedAt(i) ==
    \/ eb.promises[i].state = "rejected"
    \/ eb.promises[i].state = "fulfilled" /\ ~Usable(eb.promises[i])

\* how a message would write position i of texts (the index i - 1)
PositionName(i) == <<"0", "1", "2", "3", "4", "5">>[i]

\* the message of the error names position i
Names(e, i) == PositionName(i) \in Range(MessageOf(e))

\* when a call of the batch has failed, a finished run has thrown and
\* returned no vector at all
C17_BatchFails ==
    (eb.pc = "done" /\ \E i \in 1..Len(eb.texts) : FailedAt(i)) =>
        eb.threw /\ eb.result = <<>>

\* C17: when the call for the text at position i fails or gives no usable
\* vector, a finished run has thrown, returned no partial list of vectors,
\* and the message of the error names a position whose call failed.  The
\* messages built by the code hold the provider's message or 'No embedding
\* returned from Gemini' and never a position, so the last part is violated.
C17_BatchFailureNamesPosition ==
    (eb.pc = "done" /\ \E i \in 1..Len(eb.texts) : FailedAt(i)) =>
        /\ eb.threw
        /\ eb.result = <<>>
        /\ \E i \in 1..Len(eb.texts) : FailedAt(i) /\ Names(eb.error, i)

-----------------------------------------------------------------------------
(* processDocument (document-processor.ts): one run.  A file name is a    *)
(* sequence of characters.                                                  *)

\* names of the uploaded file
DocFileNames ==
    {<<"a", ".", "p", "d", "f">>,
     <<"a", ".", "P", "D", "F">>,
     <<"a", ".", "d", "o", "c", "x">>,
     <<"a", ".", "d", "o", "c">>,
     <<"a", ".", "D", "O", "C">>,
     <<"a", ".", "t", "x", "t">>,
     <<"a", ".", "T", "x", "t">>,
     <<"a", ".", "b", ".", "t", "x", "t">>,
     <<"a", ".", "e", "x", "e">>,
     <<"a", ".", "t", "x", "t", ".", "e", "x", "e">>,
     <<"a", ".", "p", "d", "f", ".", "x">>,
     <<"a">>,
     <<"a", ".">>,
     <<"t", "x", "t">>,
     <<"p", "d", "f">>,
     <<"d", "o", "c">>,
     <<".", "p", "d", "f">>,
     <<"T", "X", "T">>}

\* texts an extraction can give
DocTexts == {<<>>, <<" ">>, <<"a">>, <<" ", "a", "\n">>, <<"a", ".", " ", "a">>}

LowerOf(c) ==
    CASE c = "P" -> "p" [] c = "D" -> "d" [] c = "F" -> "f" [] c = "T" -> "t"
      [] c = "X" -> "x" [] c = "O" -> "o" [] c = "C" -> "c" [] OTHER -> c

\* String.prototype.toLowerCase
ToLowerCase(t) == [i \in 1..Len(t) |-> LowerOf(t[i])]

\* fileName.split('.').pop()?.toLowerCase(): the part after the last '.',
\* and the whole name when it holds no '.'
FileExtension(fileName) ==
    ToLowerCase(Slice(fileName, LastIndexOf(fileName, ".") + 1, Len(fileName)))

\* the cases of the switch
ExtensionCase(fileExtension) ==
    CASE fileExtension = <<"p", "d", "f">> -> "pdf"
      [] fileExtension = <<"d", "o", "c", "x">> -> "word"
      [] fileExtension = <<"d", "o", "c">> -> "word"
      [] fileExtension = <<"t", "x", "t">> -> "txt"
      [] OTHER -> "default"

\* splitTextIntoChunks as a function: the whole loop
RECURSIVE splitLoop(_, _, _, _, _)
splitLoop(text, chunkSize, overlap, start, chunks) ==
    IF start < Len(text)
    THEN LET it == Iterate(text, chunkSize, overlap, start)
         IN splitLoop(text, chunkSize, overlap, it.start, PushTrimmed(chunks, it.chunk))
    ELSE chunks

splitTextIntoChunks(text, chunkSize, overlap) ==
    splitLoop(text, chunkSize, overlap, 0, <<>>)

\* what a run of processPDF gives: a text that is not blank, or the error
\* after the third strategy
processPDFOutcomes ==
    {Ok(<<"a">>), Ok(<<"a", ".", " ", "a">>),
     Throw(processPDFError(NonError, NonError, Err(<<"pdfjs-dist extracted empty text">>)))}

\* processWord: mammoth.extractRawText gives result.value or throws
processWordOutcomes ==
    {Ok(t) : t \in DocTexts}
      \cup {Throw(Err(<<"Failed to process Word document: ">> \o MessageOf(e))) :
               e \in {Err(<<"mammoth">>), NonError}}

\* processText: buffer.toString('utf-8')
processTextOutcomes == {Ok(t) : t \in DocTexts}

InitDoc ==
    /\ dp = [pc |-> "call", fileName |-> <<>>, invoked |-> <<>>,
             processed |-> None, threw |-> FALSE, error |-> NonError,
             chunks |-> <<>>]
    /\ rows = <<>>
    /\ nextId = 0
    /\ op = NoOp
    /\ pdf = PdfIdle
    /\ ck = CkIdle
    /\ reqs = <<>>
    /\ eb = EbIdle
    /\ memory = <<>>

\* processDocument(file): const fileName = file.name
DocCall ==
    /\ dp.pc = "call"
    /\ \E fileName \in DocFileNames :
         dp' = [dp EXCEPT !.pc = "switch", !.fileName = fileName]

\* a case of the switch that calls extractor, whose throw leaves
\* processDocument at once
DocExtract(case, extractor, outcomes) ==
    /\ dp.pc = "switch"
    /\ ExtensionCase(FileExtension(dp.fileName)) = case
    /\ \E out \in outcomes :
         dp' = [dp EXCEPT !.invoked = Append(@, extractor),
                          !.processed = out,
                          !.pc = IF out.kind = "throw" THEN "done" ELSE "split",
                          !.threw = (out.kind = "throw"),
                          !.error = out.error]

DocPDF == DocExtract("pdf", "processPDF", processPDFOutcomes)

DocWord == DocExtract("word", "processWord", processWordOutcomes)

DocText == DocExtract("txt", "processText", processTextOutcomes)

\* default: throw new Error(`Unsupported file type: ${fileExtension}`)
DocUnsupported ==
    /\ dp.pc = "switch"
    /\ ExtensionCase(FileExtension(dp.fileName)) = "default"
    /\ dp' = [dp EXCEPT !.pc = "done", !.threw = TRUE,
                        !.error = Err(<<"Unsupported file type: ">>
                                        \o FileExtension(dp.fileName))]

\* const chunks = splitTextIntoChunks(processed.text); return {...}
DocSplit ==
    /\ dp.pc = "split"
    /\ dp' = [dp EXCEPT !.pc = "done",
                        !.invoked = Append(@, "splitTextIntoChunks"),
                        !.chunks = splitTextIntoChunks(dp.processed.text,
                                        DefaultChunkSize, DefaultOverlap)]

NextDoc ==
    /\ \/ DocCall
       \/ DocPDF
       \/ DocWord
       \/ DocText
       \/ DocUnsupported
       \/ DocSplit
    /\ UNCHANGED <<rows, nextId, op, pdf, ck, reqs, eb, memory>>

SpecDoc == InitDoc /\ [][NextDoc]_vars

-----------------------------------------------------------------------------
(* Properties of processDocument (SpecDoc) *)

\* the name holds a '.', and what follows the last one, in lower case
HasExtension(fileName) == LastIndexOf(fileName, ".") # -1

DeclaredExtension(fileName) ==
    ToLowerCase(Slice(fileName, LastIndexOf(fileName, ".") + 1, Len(fileName)))

SupportedExtensions == {<<"p", "d", "f">>, <<"d", "o", "c", "x">>, <<"d", "o", "c">>, <<"t", "x", "t">>}

\* C18: for a file whose name has no extension, or an extension that is, in
\* lower case, none of pdf, docx, doc, txt, processDocument calls neither an
\* extraction nor the chunker and ends by throwing 'Unsupported file type: '
\* followed by the extension.  A name without '.' is its own extension for
\* the code, so a file named txt, pdf or doc is extracted: violated.
C18_UnsupportedFileType ==
    (dp.pc # "call" /\ (~HasExtension(dp.fileName)
                          \/ DeclaredExtension(dp.fileName) \notin SupportedExtensions))
        => /\ dp.invoked = <<>>
           /\ dp.pc = "done" =>
                 /\ dp.threw
                 /\ dp.error.isError
                 /\ dp.error.message[1] = "Unsupported file type: "
                 /\ HasExtension(dp.fileName) =>
                       dp.error.message = <<"Unsupported file type: ">>
                                             \o DeclaredExtension(dp.fileName)

\* the same for the names that hold a '.'
C18_UnsupportedWithDot ==
    (dp.pc # "call" /\ HasExtension(dp.fileName)
                    /\ DeclaredExtension(dp.fileName) \notin SupportedExtensions)
        => /\ dp.invoked = <<>>
           /\ dp.pc = "done" =>
                 /\ dp.threw
                 /\ dp.error = Err(<<"Unsupported file type: ">>
                                     \o DeclaredExtension(dp.fileName))

-----------------------------------------------------------------------------
(* Route handlers: POST /api/chat, POST /api/upload, GET and DELETE        *)
(* /api/documents.  A request in flight occupies a slot; a step of a       *)
(* handler runs from one access of the table to the next, and the calls it *)
(* makes to its collaborators are logged in calls, in order.  reqs[Last]   *)
(* holds the request that the latest step answered, if it answered one.    *)

Slots == {1, 2}
Last == 0

\* supabaseVectorStore.search(queryEmbedding, 5, user.id)
ChatTopK == 5

\* the embedding model is a function of the text: the file a.txt has the
\* same k-th chunk, and so the same k-th embedding, in every upload
ChunkEmbedding(k) == IF k % 2 = 0 THEN <<1, 0, 0>> ELSE <<1, 1, 0>>

\* embeddings of the chat messages
QueryEmbeddings == {<<1, 1, 0>>, <<0, 1, 0>>}

NoUser == "none"

Idle == [kind |-> "none", pc |-> "idle", user |-> NoUser, calls |-> <<>>,
         status |-> 0, body |-> "", payload |-> <<>>, total |-> 0,
         count |-> 0, topK |-> 0, docs |-> <<>>, processed |-> <<>>,
         chunks |-> <<>>, ids |-> <<>>, readError |-> FALSE, cause |-> ""]

\* NextResponse.json(body, {status}): the request is over
Respond(r, status, body, payload, total) ==
    [r EXCEPT !.pc = "done", !.status = status, !.body = body,
              !.payload = payload, !.total = total, !.chunks = <<>>, !.ids = <<>>]

\* Unauthorized with the check left out
UnauthorizedNever(authError, user) == FALSE

\* if (authError || !user)
Unauthorized(authError, user) == authError \/ user = NoUser

Begin(kind, user) == [Idle EXCEPT !.kind = kind, !.user = user, !.pc = "run"]

Log(r, names) == [r EXCEPT !.calls = @ \o names]

\* a new request takes the first free slot
Free(i) ==
    /\ reqs[i].pc = "idle"
    /\ \A j \in Slots : j < i => reqs[j].pc # "idle"

\* the slot holds r, or is freed when r has responded; reqs[Last] is the
\* response of this step
Put(i, r) ==
    IF r.pc = "done" THEN [reqs EXCEPT ![i] = Idle, ![Last] = r]
    ELSE [reqs EXCEPT ![i] = r, ![Last] = Idle]

\* rows that the uploads in flight have still to insert
PendingOf(i) ==
    IF reqs[i].pc = "insert" THEN Len(reqs[i].chunks) - Len(reqs[i].ids) ELSE 0

Pending == PendingOf(1) + PendingOf(2)

\* the outcomes of supabase.auth.getUser(): an error, no user, or a user
AuthOutcomes ==
    {[authError |-> TRUE, user |-> NoUser], [authError |-> FALSE, user |-> NoUser]}
        \cup {[authError |-> FALSE, user |-> u] : u \in Owners}

Unauthorized401(kind) ==
    Respond(Log(Begin(kind, NoUser), <<"getUser">>), 401,
            "Unauthorized. Please sign in.", <<>>, 0)

\* response of the chat handler to an owner without documents
Guidance == "Please upload business documents first before asking questions."

\* CorpusEmpty with the check left out
CorpusEmptyNever(documentCount) == FALSE

\* if (documentCount === 0)
CorpusEmpty(documentCount) == documentCount = 0

\* Sources listing the documents from the last to the first
SourcesReversed(relevantDocs) ==
    [i \in 1..Len(relevantDocs) |->
        [fileName |-> relevantDocs[Len(relevantDocs) + 1 - i].metadata.fileName,
         chunkIndex |-> relevantDocs[Len(relevantDocs) + 1 - i].metadata.chunkIndex]]

\* sources: relevantDocs.map(doc => ({fileName, chunkIndex}))
Sources(relevantDocs) ==
    [i \in 1..Len(relevantDocs) |->
        [fileName |-> relevantDocs[i].metadata.fileName,
         chunkIndex |-> relevantDocs[i].metadata.chunkIndex]]

\* POST /api/chat up to and including getCount
ChatStart(i) ==
    /\ Free(i)
    /\ \E auth \in AuthOutcomes :
         IF Unauthorized(auth.authError, auth.user)
         THEN reqs' = Put(i, Unauthorized401("chat"))
         ELSE \E message \in {"text", "missing", "throws"}, readError \in BOOLEAN :
                LET r0 == Log(Begin("chat", auth.user), <<"getUser", "json">>)
                    documentCount == getCount(rows, auth.user, readError)
                    r1 == [Log(r0, <<"getCount">>) EXCEPT !.count = documentCount,
                                                         !.readError = readError]
                IN reqs' = Put(i,
                      CASE message = "throws" ->
                              Respond(r0, 500, "Failed to process chat message", <<>>, 0)
                        [] message = "missing" ->
                              Respond(r0, 400, "Message is required", <<>>, 0)
                        [] OTHER ->
                              IF CorpusEmpty(documentCount)
                              THEN Respond(r1, 200, Guidance, <<>>, 0)
                              ELSE [r1 EXCEPT !.pc = "counted"])
    /\ UNCHANGED <<rows, nextId>>

\* POST /api/chat from generateEmbedding to the response
ChatAnswer(i) ==
    /\ reqs[i].pc = "counted"
    /\ LET r0 == Log(reqs[i], <<"embedContent">>)
       IN \/ reqs' = Put(i, Respond(r0, 500, "Failed to generate embedding", <<>>, 0))
          \/ \E q \in QueryEmbeddings, rpc \in RpcOutcomes :
             \E readError \in IF rpc \in {"ok", "null"} THEN {FALSE} ELSE BOOLEAN :
             \E relevantDocs \in search(rows, q, ChatTopK, reqs[i].user, rpc, readError) :
             \E gen \in {"text", "empty", "throws"} :
               LET r1 == [Log(r0, IF rpc \in {"ok", "null"} THEN <<"rpc">>
                                  ELSE <<"rpc", "select">>)
                            EXCEPT !.topK = ChatTopK, !.readError = readError,
                                   !.docs = [k \in 1..Len(relevantDocs) |->
                                               relevantDocs[k].id]]
                   r2 == Log(r1, <<"generateContent">>)
               IN reqs' = Put(i,
                     CASE gen = "throws" ->
                             Respond(r2, 500, "generateContent failed", <<>>, 0)
                       [] gen = "empty" ->
                             Respond(r2, 200, "Sorry, I could not generate a response.",
                                     Sources(relevantDocs), 0)
                       [] OTHER ->
                             Respond(r2, 200, "answer", Sources(relevantDocs), 0))
    /\ UNCHANGED <<rows, nextId>>

\* EmptyDocument with the check left out
EmptyDocumentNever(chunksLength) == FALSE

\* if (chunks.length === 0)
EmptyDocument(chunksLength) == chunksLength = 0

\* POST /api/upload up to the call of addDocuments; processDocument(file)
\* throws or returns processed chunks
UploadBeforeInsert(i) ==
    /\ Free(i)
    /\ \E auth \in AuthOutcomes :
         IF Unauthorized(auth.authError, auth.user)
         THEN reqs' = Put(i, Unauthorized401("upload"))
         ELSE \E file \in {"file", "missing"}, fileName \in FileNames,
                 processThrows \in BOOLEAN :
              \E processed \in IF processThrows THEN {0} ELSE 0..MaxChunks :
                LET r0 == Log(Begin("upload", auth.user), <<"getUser", "formData">>)
                    r1 == Log(r0, <<"processDocument">>)
                    \* processedResult.chunks.length
                    r2 == [r1 EXCEPT !.processed = <<processed>>]
                    r3 == Log(r2, <<"embedContent">>)
                IN CASE file = "missing" ->
                          reqs' = Put(i, Respond(r0, 400, "No file provided", <<>>, 0))
                     [] file = "file" /\ processThrows ->
                          reqs' = Put(i, Respond(r1, 400, "Failed to process document",
                                                 <<>>, 0))
                     [] file = "file" /\ ~processThrows /\ EmptyDocument(processed) ->
                          reqs' = Put(i, Respond(r2, 400,
                                         "Document is empty or could not be processed",
                                         <<>>, 0))
                     [] OTHER ->
                          \/ reqs' = Put(i, Respond(r3, 500, "Failed to generate embeddings",
                                                    <<>>, 0))
                          \/ /\ nextId + Pending + processed <= MaxStored
                             /\ LET embeddings == [k \in 1..processed |->
                                                      ChunkEmbedding(k - 1)]
                                IN reqs' = Put(i,
                                     IF processed = 0
                                     THEN Respond(r3, 200,
                                             "Document uploaded and processed successfully",
                                             <<>>, 0)
                                     ELSE [r3 EXCEPT !.pc = "insert",
                                             !.chunks = [k \in 1..processed |->
                                                MakeChunk(embeddings[k], fileName, k - 1,
                                                          nextId + 1)]])

\* UploadStart storing the first chunk before the embeddings have failed
UploadStartStoreFirst(i) ==
    /\ UploadBeforeInsert(i)
    /\ IF reqs'[Last].status = 500
       THEN /\ nextId' = nextId + 1
            /\ rows' = InsertRow(rows, MakeChunk(ChunkEmbedding(0), "a.txt", 0,
                                                 nextId + 1),
                                 nextId + 1, reqs'[Last].user)
       ELSE UNCHANGED <<rows, nextId>>

\* POST /api/upload up to the call of addDocuments: no statement of it
\* touches the table
UploadStart(i) ==
    /\ UploadBeforeInsert(i)
    /\ UNCHANGED <<rows, nextId>>

\* one iteration of the loop of addDocuments inside POST /api/upload, and
\* the response when the loop ends or the insert fails
UploadInsert(i) ==
    /\ reqs[i].pc = "insert"
    /\ LET r == reqs[i]
           k == Len(r.ids) + 1
           id == nextId + 1
           r1 == Log(r, <<"insert">>)
       IN /\ nextId' = id
          /\ \/ /\ rows' = rows
                /\ reqs' = Put(i, Respond(r1, 500, "Failed to insert document chunk",
                                          <<>>, 0))
             \/ /\ rows' = InsertRow(rows, r.chunks[k], id, r.user)
                /\ reqs' = Put(i,
                      IF k = Len(r.chunks)
                      THEN Respond(r1, 200, "Document uploaded and processed successfully",
                                   Append(r.ids, id), Len(r.chunks))
                      ELSE [r1 EXCEPT !.ids = Append(@, id)])

\* Array.from(new Set(documents.map(doc => doc.metadata.fileName)))
RECURSIVE UniqueFileNames(_, _)
UniqueFileNames(documents, seen) ==
    IF documents = <<>> THEN seen
    ELSE LET f == documents[1].metadata.fileName
         IN UniqueFileNames(Tail(documents),
                            IF f \in Range(seen) THEN seen ELSE Append(seen, f))

\* documentInfo of GET /api/documents
DocumentInfo(documents) ==
    LET fileNames == UniqueFileNames(documents, <<>>)
    IN [n \in 1..Len(fileNames) |->
          LET fileDocs == SelectSeq(documents,
                              LAMBDA doc : doc.metadata.fileName = fileNames[n])
          IN [fileName |-> fileNames[n], chunks |-> Len(fileDocs),
              uploadedAt |-> fileDocs[1].metadata.timestamp]]

\* GET /api/documents
ListDocuments(i) ==
    /\ Free(i)
    /\ \E auth \in AuthOutcomes :
         IF Unauthorized(auth.authError, auth.user)
         THEN reqs' = Put(i, Unauthorized401("list"))
         ELSE \E readError \in BOOLEAN :
              \E documents \in getAllDocuments(rows, auth.user, readError) :
                reqs' = Put(i,
                   Respond([Log(Begin("list", auth.user), <<"getUser", "select">>)
                               EXCEPT !.readError = readError],
                           200, "documents", DocumentInfo(documents), Len(documents)))
    /\ UNCHANGED <<rows, nextId>>

\* DELETE /api/documents
ClearDocuments(i) ==
    /\ Free(i)
    /\ \E auth \in AuthOutcomes :
         IF Unauthorized(auth.authError, auth.user)
         THEN /\ reqs' = Put(i, Unauthorized401("delete"))
              /\ rows' = rows
         ELSE \E deleteError \in BOOLEAN :
                LET r == Log(Begin("delete", auth.user), <<"getUser", "delete">>)
                IN /\ rows' = clear(rows, auth.user, deleteError)
                   /\ reqs' = Put(i,
                         IF deleteError
                         THEN Respond(r, 500, "Failed to clear documents", <<>>, 0)
                         ELSE Respond(r, 200, "All documents cleared successfully", <<>>, 0))
    /\ UNCHANGED nextId

Init ==
    /\ rows = <<>>
    /\ nextId = 0
    /\ reqs = [i \in Slots \cup {Last} |-> Idle]
    /\ op = NoOp
    /\ pdf = PdfIdle
    /\ ck = CkIdle
    /\ eb = EbIdle
    /\ dp = DpIdle
    /\ memory = <<>>

Next ==
    /\ \E i \in Slots :
          \/ ChatStart(i)
          \/ ChatAnswer(i)
          \/ UploadStart(i)
          \/ UploadInsert(i)
          \/ ListDocuments(i)
          \/ ClearDocuments(i)
    /\ UNCHANGED <<op, pdf, ck, eb, dp, memory>>

Spec == Init /\ [][Next]_vars

\* C4: a chat request of an authenticated owner whose getCount returned 0
\* has responded, in the step that counted, with status 200 and the fixed
\* guidance message and no sources, and its calls hold neither the embedding
\* model, nor the vector search (rpc or select), nor the completion model.
C4_EmptyCorpusShortCircuit ==
    \A i \in Slots \cup {Last} :
        LET r == reqs[i]
        IN (r.kind = "chat" /\ r.user # NoUser /\ "getCount" \in Range(r.calls)
              /\ r.count = 0)
           => /\ r.pc = "done"
              /\ r.status = 200
              /\ r.body = Guidance
              /\ r.payload = <<>>
              /\ r.calls = <<"getUser", "json", "getCount">>
              /\ Range(r.calls) \cap {"embedContent", "rpc", "select", "generateContent"} = {}

\* the short-circuit answered an owner without rows while another owner has
\* rows and an upload is in flight
C4_Witness ==
    /\ reqs[Last].kind = "chat"
    /\ reqs[Last].user = "u1"
    /\ reqs[Last].count = 0
    /\ reqs[Last].body = Guidance
    /\ Owned(rows, "u1") = {}
    /\ Owned(rows, "u2") # {}
    /\ \E i \in Slots : reqs[i].pc = "insert"

\* C5: in the four handlers, a request whose getUser gave an error or no
\* user responds 401 in its first step, having called nothing but getUser
\* (no body parsing, document processing, embedding, completion, store read
\* or write), the table and the ids are unchanged by that step, and no
\* request without a user is ever in flight.
C5_UnauthorizedFirst ==
    [][/\ \A i \in Slots : reqs'[i].kind # "none" => reqs'[i].user # NoUser
       /\ (reqs'[Last].kind # "none" /\ reqs'[Last].user = NoUser)
            => /\ reqs'[Last].pc = "done"
               /\ reqs'[Last].status = 401
               /\ reqs'[Last].calls = <<"getUser">>
               /\ rows' = rows
               /\ nextId' = nextId
               /\ \A i \in Slots : reqs'[i] = reqs[i]]_vars

\* a clear request without a user was answered 401 while rows are stored
\* and a chat request is in flight
C5_Witness ==
    /\ reqs[Last].kind = "delete"
    /\ reqs[Last].user = NoUser
    /\ reqs[Last].status = 401
    /\ rows # <<>>
    /\ \E i \in Slots : reqs[i].pc = "counted"

\* C14: no two stored rows of the same owner and the same file name have
\* the same chunk index.  The upload handler numbers the chunks of every
\* upload from 0 and nothing removes or rejects the rows of an earlier
\* upload of the same file name, so a second upload violates this.
C14_UniqueChunkIndex ==
    \A i, j \in 1..Len(rows) :
        (i # j /\ rows[i].user_id = rows[j].user_id
               /\ rows[i].file_name = rows[j].file_name)
            => rows[i].chunk_index # rows[j].chunk_index

\* the ids of the rows that the upload r has inserted so far (in flight), or
\* returned as documentIds (answered with success)
UploadedIds(r) ==
    IF r.pc = "insert" THEN r.ids
    ELSE IF r.kind = "upload" /\ r.status = 200 THEN r.payload
    ELSE <<>>

\* C15: the stored rows that come from one upload, in the order of their
\* insertion, have the chunk indexes 0, 1, 2, ... .  A DELETE /api/documents
\* of the same owner that runs between two inserts of an upload removes the
\* first rows of that upload while the later ones are still inserted, which
\* violates this.
C15_ContiguousChunkIndex ==
    \A i \in Slots \cup {Last} :
        LET ids == UploadedIds(reqs[i])
            stored == SelectSeq(rows, LAMBDA row : row.id \in Range(ids))
        IN \A j \in 1..Len(stored) : stored[j].chunk_index = j - 1

\* C19: an upload whose processDocument returned zero chunks is answered,
\* in the step that processed the file, with status 400 and 'Document is
\* empty or could not be processed'; its calls end with processDocument, so
\* neither generateEmbeddings (embedContent) nor addDocuments (insert) was
\* called, and the step leaves the table and the ids unchanged.
C19_EmptyDocument ==
    [][/\ \A i \in Slots \cup {Last} :
            (reqs'[i].kind = "upload" /\ reqs'[i].processed = <<0>>)
              => /\ reqs'[i].pc = "done"
                 /\ reqs'[i].status = 400
                 /\ reqs'[i].body = "Document is empty or could not be processed"
                 /\ reqs'[i].calls = <<"getUser", "formData", "processDocument">>
       /\ (reqs'[Last].kind = "upload" /\ reqs'[Last].processed = <<0>>)
            => /\ rows' = rows
               /\ nextId' = nextId
               /\ \A i \in Slots : reqs'[i] = reqs[i]]_vars

\* an upload without chunks was refused while rows are stored and another
\* upload is in flight
C19_Witness ==
    /\ reqs[Last].kind = "upload"
    /\ reqs[Last].processed = <<0>>
    /\ reqs[Last].status = 400
    /\ rows # <<>>
    /\ \E i \in Slots : reqs[i].pc = "insert"

\* the positions of call name in the calls of request r
CallsOf(r, name) == {k \in 1..Len(r.calls) : r.calls[k] = name}

\* C20: when a chat request that reached retrieval responds, search was
\* called once, with topK = 5; the completion model was called at most
\* once, as the last call, after the search calls; and the sources of a
\* successful response have one entry per chunk that search returned (docs
\* holds their ids), at most 5, in the same order, each entry being the
\* fileName and chunkIndex of that chunk.
C20_ChatSources ==
    [][\A i \in Slots :
          (reqs[i].pc = "counted" /\ reqs'[i].pc = "idle"
              /\ CallsOf(reqs'[Last], "rpc") # {})
          => LET r == reqs'[Last]
             IN /\ r.kind = "chat"
                /\ r.topK = 5
                /\ Cardinality(CallsOf(r, "rpc")) = 1
                /\ Cardinality(CallsOf(r, "generateContent")) <= 1
                /\ \A k \in CallsOf(r, "generateContent") :
                      /\ k = Len(r.calls)
                      /\ \A j \in CallsOf(r, "rpc") \cup CallsOf(r, "select") : j < k
                /\ r.status = 200 =>
                      /\ Len(r.payload) = Len(r.docs)
                      /\ Len(r.payload) <= 5
                      /\ \A k \in 1..Len(r.docs) :
                            \E row \in Range(rows) :
                               /\ row.id = r.docs[k]
                               /\ row.user_id = r.user
                               /\ r.payload[k] = [fileName |-> row.file_name,
                                                  chunkIndex |-> row.chunk_index]]_vars

\* a chat response with two sources whose ranking is not the order of the
\* chunks in the file
C20_Witness ==
    /\ reqs[Last].kind = "chat"
    /\ reqs[Last].status = 200
    /\ reqs[Last].topK = 5
    /\ Len(reqs[Last].payload) = 2
    /\ reqs[Last].payload[1].chunkIndex = 1
    /\ reqs[Last].payload[2].chunkIndex = 0

\* C21: a chat or document-list request in which a read of the store
\* failed (inside getCount, inside the fallback of search, or inside
\* getAllDocuments) does not end with a success response.  The three
\* functions log the error and return 0 or [], so the handlers answer 200
\* with the guidance message, with an answer without sources, or with an
\* empty list: violated.
C21_ReadFailureNotSilent ==
    \A i \in Slots \cup {Last} :
        (reqs[i].kind \in {"chat", "list"} /\ reqs[i].readError /\ reqs[i].pc = "done")
            => reqs[i].status >= 400

\* the owner's rows that carry a file name
RowsOfFile(userId, fileName) ==
    {r \in Owned(rows, userId) : r.file_name = fileName}

\* C23: a successful list response has one entry per distinct file name of
\* the owner; the chunk count of an entry is the number of the owner's rows
\* with that file name, the counts sum to the total, and the timestamp of
\* an entry is the earliest upload time among those rows.
C23_ListEntries ==
    LET r == reqs[Last]
        entries == r.payload
    IN (r.kind = "list" /\ r.status = 200 /\ ~r.readError) =>
          /\ {entries[n].fileName : n \in 1..Len(entries)}
                = {x.file_name : x \in Owned(rows, r.user)}
          /\ \A m, n \in 1..Len(entries) :
                entries[m].fileName = entries[n].fileName => m = n
          /\ r.total = Cardinality(Owned(rows, r.user))
          /\ \A n \in 1..Len(entries) :
                LET fileRows == RowsOfFile(r.user, entries[n].fileName)
                IN /\ entries[n].chunks = Cardinality(fileRows)
                   /\ \A x \in fileRows : entries[n].uploadedAt <= x.created_at

\* the part of C23 the handler keeps: entries, chunk counts and total
C23_ListCounts ==
    LET r == reqs[Last]
        entries == r.payload
    IN (r.kind = "list" /\ r.status = 200 /\ ~r.readError) =>
          /\ {entries[n].fileName : n \in 1..Len(entries)}
                = {x.file_name : x \in Owned(rows, r.user)}
          /\ r.total = Cardinality(Owned(rows, r.user))
          /\ \A n \in 1..Len(entries) :
                entries[n].chunks =
                    Cardinality(RowsOfFile(r.user, entries[n].fileName))

\* the request of slot i after this step: still in its slot, or responded
AfterStep(i) == IF reqs'[i].pc # "idle" THEN reqs'[i] ELSE reqs'[Last]

\* C30: an upload request that fails before addDocuments (authentication,
\* missing file, extraction, empty document, generateEmbeddings) leaves
\* every row of the table as it was; the embeddings are all generated
\* before the first insert; a step of an upload request changes the table
\* only by appending one row of its own user inside addDocuments.
C30_FailedUploadFrame ==
    [][/\ (reqs'[Last].kind = "upload" /\ reqs'[Last].status # 200
              /\ "insert" \notin Range(reqs'[Last].calls)) => rows' = rows
       /\ \A i \in Slots \cup {Last} :
            LET c == reqs'[i].calls
            IN \A k \in 1..Len(c) :
                  c[k] = "insert" => \E j \in 1..(k - 1) : c[j] = "embedContent"
       /\ (rows' # rows /\ reqs'[Last].kind # "delete") =>
            \E i \in Slots :
               /\ reqs[i].kind = "upload" /\ reqs[i].pc = "insert"
               /\ AfterStep(i).calls = Append(reqs[i].calls, "insert")
               /\ Len(rows') = Len(rows) + 1
               /\ SubSeq(rows', 1, Len(rows)) = rows
               /\ rows'[Len(rows')].user_id = reqs[i].user
      ]_vars

\* an upload has answered 500 without an insert (generateEmbeddings failed)
\* while the table holds rows
C30_Witness ==
    /\ reqs[Last].kind = "upload" /\ reqs[Last].status = 500
    /\ "embedContent" \in Range(reqs[Last].calls)
    /\ "insert" \notin Range(reqs[Last].calls)
    /\ rows # <<>>

-----------------------------------------------------------------------------
(* SpecUpload: one request to POST /api/upload, with processDocument run   *)
(* step by step inside it (the actions of SpecDoc) and addDocuments as one *)
(* call.  The request is in slot 1 and its response in reqs[Last].         *)

InitUpload ==
    /\ dp = [pc |-> "call", fileName |-> <<>>, invoked |-> <<>>,
             processed |-> None, threw |-> FALSE, error |-> NonError,
             chunks |-> <<>>]
    /\ reqs = [i \in Slots \cup {Last} |-> Idle]
    /\ rows = <<>>
    /\ nextId = 0
    /\ op = NoOp
    /\ pdf = PdfIdle
    /\ ck = CkIdle
    /\ eb = EbIdle
    /\ memory = <<>>

\* getUser, formData and formData.get('file'), up to the call of
\* processDocument
UploadReceive ==
    /\ reqs[1].pc = "idle" /\ reqs[Last].pc = "idle"
    /\ \E auth \in AuthOutcomes :
         IF Unauthorized(auth.authError, auth.user)
         THEN reqs' = Put(1, [Unauthorized401("upload") EXCEPT !.cause = "auth"])
         ELSE LET r0 == Log(Begin("upload", auth.user), <<"getUser", "formData">>)
              IN \/ reqs' = Put(1, [Respond(r0, 400, "No file provided", <<>>, 0)
                                      EXCEPT !.cause = "file"])
                 \/ reqs' = Put(1, [Log(r0, <<"processDocument">>)
                                      EXCEPT !.pc = "process"])
    /\ UNCHANGED <<rows, nextId, dp>>

\* processDocument runs while the handler awaits it
UploadProcess ==
    /\ reqs[1].pc = "process"
    /\ \/ DocCall
       \/ DocPDF
       \/ DocWord
       \/ DocText
       \/ DocUnsupported
       \/ DocSplit
    /\ UNCHANGED <<rows, nextId, reqs>>

\* from the return or throw of processDocument to the response
UploadFinish ==
    /\ reqs[1].pc = "process" /\ dp.pc = "done"
    /\ LET r1 == reqs[1]
           n == Len(dp.chunks)
           r2 == [r1 EXCEPT !.processed = <<n>>]
           r3 == Log(r2, <<"embedContent">>)
       IN IF dp.threw
          THEN /\ reqs' = Put(1, [Respond(r1, 400, "Failed to process document",
                                          <<>>, 0) EXCEPT !.cause = "process"])
               /\ UNCHANGED <<rows, nextId>>
          ELSE IF EmptyDocument(n)
          THEN /\ reqs' = Put(1, [Respond(r2, 400,
                                      "Document is empty or could not be processed",
                                      <<>>, 0) EXCEPT !.cause = "empty"])
               /\ UNCHANGED <<rows, nextId>>
          ELSE \/ /\ reqs' = Put(1, [Respond(r3, 500, "Failed to generate embeddings",
                                             <<>>, 0) EXCEPT !.cause = "embed"])
                  /\ UNCHANGED <<rows, nextId>>
               \/ \E failAt \in 0..n :
                    LET chunks == [k \in 1..n |->
                                     MakeChunk(ChunkEmbedding(k - 1), dp.fileName,
                                               k - 1, nextId + 1)]
                        a == addDocuments(rows, chunks, r1.user, failAt)
                        r4 == Log(r3, [k \in 1..Len(a.ids) |-> "insert"])
                    IN /\ rows' = a.table
                       /\ nextId' = nextId + Len(a.ids)
                       /\ reqs' = Put(1,
                            IF a.threw
                            THEN [Respond(r4, 500, "Failed to insert document chunk",
                                          <<>>, 0) EXCEPT !.cause = "insert"]
                            ELSE Respond(r4, 200,
                                    "Document uploaded and processed successfully",
                                    a.ids, n))
    /\ UNCHANGED dp

NextUpload ==
    /\ \/ UploadReceive
       \/ UploadProcess
       \/ UploadFinish
    /\ UNCHANGED <<op, pdf, ck, eb, memory>>

SpecUpload == InitUpload /\ [][NextUpload]_vars

\* the file of the request has a type the spec supports
SupportedType(fileName) ==
    HasExtension(fileName) /\ DeclaredExtension(fileName) \in SupportedExtensions

\* C26: the response of an upload request is 401 for a missing user, 400 for
\* a missing file, an unsupported type, an extraction failure or an empty
\* document, 500 for an embedding or storage-write failure, and a success
\* only when every chunk was embedded and inserted; every response that is
\* no success carries an error message; the request responds once.
C26_UploadStatus ==
    LET r == reqs[Last]
    IN (r.kind = "upload" /\ r.pc = "done") =>
          /\ reqs[1].pc = "idle"
          /\ r.status \in {200, 400, 401, 500}
          /\ r.status = 401 <=> r.user = NoUser
          /\ r.status = 400 <=> r.cause \in {"file", "process", "empty"}
          /\ r.status = 500 <=> r.cause \in {"embed", "insert"}
          /\ ("processDocument" \in Range(r.calls) /\ ~SupportedType(dp.fileName))
                => r.status = 400
          /\ r.status = 200 =>
                /\ r.total > 0 /\ r.total = Len(dp.chunks)
                /\ Len(r.payload) = r.total
                /\ \A k \in 1..r.total : \E x \in Range(rows) :
                      /\ x.id = r.payload[k] /\ x.user_id = r.user
                      /\ x.chunk_index = k - 1
          /\ r.status # 200 => r.body # ""

\* the same without the unsupported types that hold no '.' (C18)
C26_UploadStatusWithDot ==
    LET r == reqs[Last]
    IN (r.kind = "upload" /\ r.pc = "done") =>
          /\ reqs[1].pc = "idle"
          /\ r.status \in {200, 400, 401, 500}
          /\ r.status = 401 <=> r.user = NoUser
          /\ r.status = 400 <=> r.cause \in {"file", "process", "empty"}
          /\ r.status = 500 <=> r.cause \in {"embed", "insert"}
          /\ ("processDocument" \in Range(r.calls) /\ HasExtension(dp.fileName)
                /\ ~SupportedType(dp.fileName))
                => r.status = 400 /\ dp.invoked = <<>>
          /\ r.status = 200 =>
                /\ r.total > 0 /\ r.total = Len(dp.chunks)
                /\ Len(r.payload) = r.total
                /\ \A k \in 1..r.total : \E x \in Range(rows) :
                      /\ x.id = r.payload[k] /\ x.user_id = r.user
                      /\ x.chunk_index = k - 1
          /\ r.status # 200 => r.body # ""

====
